---------------------------- MODULE Spec2Model ----------------------------
(***************************************************************************)
(* QSFS core: the directory tree (DirectoryTree, Node, Entry), the file   *)
(* metadata registry (FileMetaDataManager) and the Drive facade with the  *)
(* page cache and the transfer manager it drives.                          *)
(*                                                                         *)
(* Paths are sequences of one-character strings, so that dirname and the   *)
(* trailing-slash normalisation are computed the way the code computes     *)
(* them.  Objects that the C++ code shares through shared_ptr / weak_ptr   *)
(* live in two heaps (nodes, metas); a weak reference is an index whose    *)
(* target may be dead.                                                     *)
(***************************************************************************)
EXTENDS Integers, Sequences, FiniteSets, TLC

VARIABLES
  nodes,                  \* heap of Node objects, index = identity
  metas,                  \* heap of FileMetaData objects, index = identity
  m_metaDatas,            \* FileMetaDataManager: LRU list of [path, meta]
  m_map,                  \* DirectoryTree: path -> weak Node
  m_parentToChildrenMap,  \* DirectoryTree: set of <<dirName, weak Node>>
  m_root,                 \* DirectoryTree: owning reference to the root
  m_currentNode,          \* DirectoryTree: owning reference to the last grown Node
  nGrow,                  \* number of Grow calls made so far
  lastGrow,               \* the last Grow call: its metadata, the Node, created or updated
  orphans,                \* <<Node, path>> created while no Node existed at its dirname
  store,                  \* object store: the bytes of the object of the file
  m_cache,                \* Cache: key -> [data: offset -> byte, mtime]
  handles,                \* heap of TransferHandle objects, index = identity
  tasks,                  \* executor: asynchronous range downloads submitted
  rd,                     \* the callers of Drive::ReadFile, each with its position
  up,                     \* the caller of Drive::UploadFile and its executor task
  m_unfinishedMultipartUploadHandles,   \* Drive: object key -> handle
  aborts,                 \* handles AbortMultipartUpload was called for
  destroyed,              \* Drive::~Drive has run
  wlog,                   \* offset -> byte that WriteFile calls have returned for
  nWrite,                 \* number of WriteFile calls made so far
  lastWrite,              \* the last WriteFile call: its arguments and return value
  heads,                  \* caller -> number of HEAD requests GetNode made for it
  retryStrategy,          \* RetryStrategy: m_maxRetryTimes and m_scaleFactor
  clientCall,             \* a client call under the retry strategy and its position
  objects,                \* object store: path of each object -> its mtime
  moves,                  \* the server-side moves requested so far
  listings,               \* executor: paths a ListDirectory task has yet to grow
  lastRename,             \* the last rename call: its arguments and position
  nRename,                \* number of rename calls made so far
  requests,               \* the requests made of the client so far, in order
  lastCall,               \* the last call of a Drive operation and its position
  nCall,                  \* number of such calls made so far
  m_mapOfManager,         \* FileMetaDataManager::m_map: path -> its slot of the list
  access,                 \* the last call of FileMetaData::FileAccess and its result
  dr,                     \* DownloadFileContentRanges: one range and the position of its loop
  wr,                     \* the concurrent callers of Drive::WriteFile, each with its position
  m_mutex,                \* DirectoryTree: the holder of its recursive lock
  gr,                     \* the thread inside DirectoryTree::Grow and its position
  fc                      \* the last call of DirectoryTree::FindChildren and what it saw

treeVars == <<nodes, metas, m_metaDatas, m_map, m_parentToChildrenMap,
              m_root, m_currentNode, nGrow, lastGrow, orphans>>

retryVars == <<retryStrategy, clientCall>>

opsVars == <<requests, lastCall, nCall>>

lockVars == <<m_mutex, gr, fc>>

loopVars == <<dr, wr, lockVars>>

dataVars == <<m_mapOfManager, access, loopVars>>

driveVars == <<store, m_cache, handles, tasks, rd, up,
               m_unfinishedMultipartUploadHandles, aborts, destroyed, wlog,
               nWrite, lastWrite, heads, retryVars, dataVars, opsVars, dataVars>>

renameVars == <<objects, moves, listings, lastRename, nRename>>

vars == <<treeVars, driveVars, renameVars, retryVars, opsVars, dataVars>>

-----------------------------------------------------------------------------
(* Bounds *)

MaxGrow == 4

MaxWrite == 1

MaxHandles == 3

MaxRename == 2

MaxRetryTimes == 3

-----------------------------------------------------------------------------
(* Paths *)

ROOT_PATH == <<"/">>

NullPath == <<>>

Last(s) == s[Len(s)]

IsRootDirectory(p) == p = ROOT_PATH

AppendPathDelim(p) == IF Last(p) # "/" THEN Append(p, "/") ELSE p

\* std::string::find_last_of('/'): the last index holding '/', 0 for npos
FindLastOfDelim(s) ==
  IF \E i \in 1..Len(s) : s[i] = "/"
  THEN CHOOSE i \in 1..Len(s) : s[i] = "/" /\ \A j \in (i+1)..Len(s) : s[j] # "/"
  ELSE 0

MyDirNameOf(filePath) ==
  IF IsRootDirectory(filePath) THEN NullPath
  ELSE LET cpy == IF Last(filePath) = "/"
                  THEN SubSeq(filePath, 1, Len(filePath) - 1)
                  ELSE filePath
           pos == FindLastOfDelim(cpy)
       IN IF pos # 0 THEN SubSeq(cpy, 1, pos) ELSE NullPath

-----------------------------------------------------------------------------
(* FileMetaData *)

FileTypes == {"File", "Directory"}

FileMetaData(filePath, fileSize, mtime, fileType) ==
  [ m_filePath   |-> IF fileType = "Directory" THEN AppendPathDelim(filePath)
                     ELSE filePath,
    m_fileSize   |-> fileSize,
    m_mtime      |-> mtime,
    m_fileType   |-> fileType,
    m_numLink    |-> IF fileType = "Directory" THEN 2 ELSE 1,
    m_dirty      |-> FALSE,
    m_fileOpen   |-> FALSE ]

MyDirName(meta) == MyDirNameOf(meta.m_filePath)

-----------------------------------------------------------------------------
(* The inputs of Grow: metadata as HEAD and LIST responses produce them.   *)

MTimes == {1, 2}

RawDirPaths == { <<"/">>, <<"/", "a">>, <<"/", "a", "/", "b">> }

RawFilePaths == { <<"/", "c">>, <<"/", "a", "/", "f">>,
                  <<"/", "a", "/", "b", "/", "g">> }

GrowInputs ==
  { FileMetaData(p, 0, t, "Directory") : p \in RawDirPaths, t \in MTimes }
  \cup { FileMetaData(p, 1, t, "File") : p \in RawFilePaths, t \in MTimes }

-----------------------------------------------------------------------------
(* Heap access.  h is a record [nodes, metas, mgr]: the two heaps and the  *)
(* manager's list, threaded through the steps of one operation.           *)

NullNode == 0

NullMeta == 0

Heap == [nodes |-> nodes, metas |-> metas, mgr |-> m_metaDatas]

\* a FileMetaData object is owned by its slot of the manager's list alone
MetaAlive(h, e) ==
  e # NullMeta /\ \E i \in 1..Len(h.mgr) : h.mgr[i].meta = e

\* Entry::operator bool: the weak metadata reference is live and has a path
EntryOk(h, e) == MetaAlive(h, e) /\ h.metas[e].m_filePath # NullPath

NodeEntryOk(h, n) == EntryOk(h, h.nodes[n].m_entry)

GetFilePath(h, n) ==
  IF NodeEntryOk(h, n) THEN h.metas[h.nodes[n].m_entry].m_filePath ELSE NullPath

IsDirectory(h, n) ==
  NodeEntryOk(h, n) /\ h.metas[h.nodes[n].m_entry].m_fileType = "Directory"

\* weak_ptr<Node>::lock
LockNode(h, w) == IF w # NullNode /\ h.nodes[w].alive THEN w ELSE NullNode

-----------------------------------------------------------------------------
(* FileMetaDataManager: most recently used at the front.                   *)

MgrIndex(mgr, path) ==
  IF \E i \in 1..Len(mgr) : mgr[i].path = path
  THEN CHOOSE i \in 1..Len(mgr) : mgr[i].path = path
  ELSE 0

RemoveAt(s, i) == SubSeq(s, 1, i - 1) \o SubSeq(s, i + 1, Len(s))

ManagerAdd_Duplicates(mgr, path, e) == <<[path |-> path, meta |-> e]>> \o mgr

\* Add: a path already present is moved to the front and its slot takes the
\* new object; otherwise the new object is put at the front.
ManagerAdd(mgr, path, e) ==
  LET i == MgrIndex(mgr, path)
  IN IF i # 0
     THEN <<[path |-> path, meta |-> e]>> \o RemoveAt(mgr, i)
     ELSE <<[path |-> path, meta |-> e]>> \o mgr

ManagerErase(mgr, path) ==
  LET i == MgrIndex(mgr, path)
  IN IF i # 0 THEN RemoveAt(mgr, i) ELSE mgr

\* Entry::Entry(shared_ptr<FileMetaData>&&): a new FileMetaData object,
\* referenced weakly by the Entry and handed to the manager.
NewEntryId(h) == Len(h.metas) + 1

EntryCtor(h, meta) ==
  [h EXCEPT !.metas = Append(@, meta),
            !.mgr = ManagerAdd(@, meta.m_filePath, Len(h.metas) + 1)]

IncreaseNumLink(h, e) ==
  IF MetaAlive(h, e) THEN [h EXCEPT !.metas[e].m_numLink = @ + 1] ELSE h

DecreaseNumLink(h, e) ==
  IF MetaAlive(h, e) THEN [h EXCEPT !.metas[e].m_numLink = @ - 1] ELSE h

-----------------------------------------------------------------------------
(* Node *)

NewNode(e) ==
  [alive |-> TRUE, m_entry |-> e, m_parent |-> NullNode, m_children |-> <<>>]

\* Node::Insert: emplace keeps an existing key; a directory child that was
\* inserted adds a link to this Node's metadata.
NodeInsert(h, parent, child) ==
  LET key == GetFilePath(h, child)
  IN IF key \in DOMAIN h.nodes[parent].m_children
     THEN h
     ELSE LET h1 == [h EXCEPT !.nodes[parent].m_children = @ @@ (key :> child)]
          IN IF IsDirectory(h1, child)
             THEN IncreaseNumLink(h1, h1.nodes[parent].m_entry)
             ELSE h1

SetParent(h, child, parent) == [h EXCEPT !.nodes[child].m_parent = parent]

NodeDtor_AlwaysErase(h, n) ==
  IF ~NodeEntryOk(h, n) THEN h
  ELSE [DecreaseNumLink(h, h.nodes[n].m_entry) EXCEPT
          !.mgr = ManagerErase(@, GetFilePath(h, n))]

\* Node::Remove: the entry of the children map under the path of the child
\* is erased
NodeRemove(h, parent, child) ==
  LET children == h.nodes[parent].m_children
      key      == GetFilePath(h, child)
  IN IF child # NullNode /\ key \in DOMAIN children
     THEN [h EXCEPT !.nodes[parent].m_children =
                      [k \in DOMAIN children \ {key} |-> children[k]]]
     ELSE h

\* Node::~Node, the body: the metadata loses a link and leaves the manager
\* when no link is left (one, for a directory).
NodeDtor(h, n) ==
  IF ~NodeEntryOk(h, n) THEN h
  ELSE LET e  == h.nodes[n].m_entry
           h1 == DecreaseNumLink(h, e)
       IN IF h1.metas[e].m_numLink = 0
             \/ (h1.metas[e].m_numLink <= 1 /\ IsDirectory(h1, n))
          THEN [h1 EXCEPT !.mgr = ManagerErase(@, GetFilePath(h1, n))]
          ELSE h1

-----------------------------------------------------------------------------
(* Ownership.  A Node lives while an owning reference reaches it: m_root,  *)
(* m_currentNode, or the children map of a living Node.  The path map, the *)
(* parent-to-children index and the parent link are weak.                  *)

ChildrenOf(h, S) ==
  UNION { { h.nodes[n].m_children[k] : k \in DOMAIN h.nodes[n].m_children } : n \in S }

RECURSIVE Owned(_, _)
Owned(h, S) ==
  LET T == S \cup ChildrenOf(h, S)
  IN IF T = S THEN S ELSE Owned(h, T)

RECURSIVE DestroyAll(_, _)
DestroyAll(h, D) ==
  IF D = {} THEN h
  ELSE LET n  == CHOOSE x \in D : TRUE
           h1 == NodeDtor(h, n)
           h2 == [h1 EXCEPT !.nodes[n].alive = FALSE,
                            !.nodes[n].m_children = <<>>]
       IN DestroyAll(h2, D \ {n})

\* release every Node that no owning reference reaches any more
Release(h, roots) ==
  LET keep == Owned(h, roots \ {NullNode})
      dead == { n \in 1..Len(h.nodes) : h.nodes[n].alive /\ n \notin keep }
  IN DestroyAll(h, dead)

-----------------------------------------------------------------------------
(* DirectoryTree *)

\* DirectoryTree::Find, then lock() : the living Node the path map holds
\* for the path, NullNode when it holds none or one that is gone
Find(h, map, filePath) ==
  IF filePath \in DOMAIN map THEN LockNode(h, map[filePath]) ELSE NullNode

\* unordered_map::emplace: an existing key keeps its value
MapEmplace(map, key, value) ==
  IF key \in DOMAIN map THEN map ELSE map @@ (key :> value)

\* "hook up with parent"
HookUpParent(h, map, node, dirName) ==
  LET parent == Find(h, map, dirName)
  IN IF parent # NullNode
     THEN SetParent(NodeInsert(h, parent, node), node, parent)
     ELSE h

\* "hook up with children": the living Nodes the index holds under filePath
RECURSIVE HookUpChildren(_, _, _)
HookUpChildren(h, node, C) ==
  IF C = {} THEN h
  ELSE LET child == CHOOSE c \in C : TRUE
       IN HookUpChildren(NodeInsert(SetParent(h, child, node), node, child),
                         node, C \ {child})

IndexRange(h, p2c, filePath) ==
  { LockNode(h, e[2]) : e \in { x \in p2c : x[1] = filePath } } \ {NullNode}

\* DirectoryTree::Grow, the branch that updates the entry of a living Node
GrowUpdate(meta, node) ==
  LET h0 == Heap
      h1 == [EntryCtor(h0, meta) EXCEPT !.nodes[node].m_entry = NewEntryId(h0)]
      h2 == Release(h1, {m_root, node})
  IN /\ nodes' = h2.nodes
     /\ metas' = h2.metas
     /\ m_metaDatas' = h2.mgr
     /\ m_currentNode' = node
     /\ lastGrow' = [meta |-> meta, node |-> node, created |-> FALSE]
     /\ UNCHANGED <<m_root, m_map, m_parentToChildrenMap, orphans>>

\* DirectoryTree::Grow, the branch that makes a new Node.  For an empty
\* dirName the build with assertions stops at assert(!dirName.empty()) and
\* takes no step; the build without them goes on as below.
GrowCreate(meta) ==
  LET h0       == Heap
      filePath == meta.m_filePath
      isDir    == meta.m_fileType = "Directory"
      dirName  == MyDirName(meta)
      node     == Len(h0.nodes) + 1
      h1       == [EntryCtor(h0, meta) EXCEPT
                     !.nodes = Append(@, NewNode(NewEntryId(h0)))]
      map1     == MapEmplace(m_map, filePath, node)
      h2       == HookUpParent(h1, map1, node, dirName)
      h3       == IF isDir
                  THEN HookUpChildren(h2, node,
                         IndexRange(h2, m_parentToChildrenMap, filePath))
                  ELSE h2
      h4       == Release(h3, {m_root, node})
  IN /\ nodes' = h4.nodes
     /\ metas' = h4.metas
     /\ m_metaDatas' = h4.mgr
     /\ m_map' = map1
     /\ m_parentToChildrenMap' = m_parentToChildrenMap \cup {<<dirName, node>>}
     /\ m_currentNode' = node
     /\ lastGrow' = [meta |-> meta, node |-> node, created |-> TRUE]
     /\ orphans' = IF Find(h0, m_map, dirName) = NullNode
                   THEN orphans \cup {<<node, filePath>>} ELSE orphans
     /\ UNCHANGED m_root

\* DirectoryTree::Grow
GrowNode(meta) ==
  LET node == Find(Heap, m_map, meta.m_filePath)
  IN IF node # NullNode THEN GrowUpdate(meta, node) ELSE GrowCreate(meta)

Grow(meta) ==
  /\ nGrow < MaxGrow
  /\ nGrow' = nGrow + 1
  /\ GrowNode(meta)

GrowAny == \E meta \in GrowInputs : Grow(meta)

-----------------------------------------------------------------------------
(* Drive: the file it serves, the object store and the configuration       *)

FileX == <<"/", "x">>

\* the key of the object that backs a path: the path without the leading '/'
ObjectKey(filePath) == Tail(filePath)

CacheKeys == {FileX, ObjectKey(FileX)}

StoreBytes == <<"s", "s">>

MaxFileCacheSize == 4

TransferMaxBufSize == 2

MultipartThreshold == 2

\* uint64_t arithmetic, on a scaled width
SizeModulus == 16

WrapU64(x) == x % SizeModulus

Min(a, b) == IF a < b THEN a ELSE b

\* <<offset, size>> of the ReadFile calls: the head of the file, all of it,
\* at its end and past its end
ReadRanges == { <<0, 1>>, <<0, 2>>, <<2, 1>>, <<3, 1>> }

WriteOffsets == {0, 2}

\* time(NULL) at a WriteFile call: the second of the file's mtime or a later one
WriteTimes == {1, 2}

Readers == {"r1", "r2"}

FileNode == Find(Heap, m_map, FileX)

FileEntry == nodes[FileNode].m_entry

FileMeta == metas[FileEntry]

-----------------------------------------------------------------------------
(* Cache: per key the cached bytes by offset and the mtime tag              *)

NoFile == [data |-> <<>>, mtime |-> 0]

Range(offset, size) == offset..(offset + size - 1)

\* true iff the range is covered and the tag equals the metadata's mtime
HasFileData(c, filePath, offset, size) ==
  /\ \A i \in Range(offset, size) : i \in DOMAIN c[filePath].data
  /\ c[filePath].mtime = FileMeta.m_mtime

RECURSIVE RunLength(_, _, _)
RunLength(data, i, fileSize) ==
  IF i >= fileSize \/ i \in DOMAIN data THEN 0
  ELSE 1 + RunLength(data, i + 1, fileSize)

RECURSIVE GapsFrom(_, _, _)
GapsFrom(data, i, fileSize) ==
  IF i >= fileSize THEN <<>>
  ELSE IF i \in DOMAIN data THEN GapsFrom(data, i + 1, fileSize)
  ELSE LET n == RunLength(data, i, fileSize)
       IN <<[offset |-> i, size |-> n]>> \o GapsFrom(data, i + n, fileSize)

\* the ordered complement of the cached ranges within [0, fileSize)
GetUnloadedRanges(c, filePath, fileSize) == GapsFrom(c[filePath].data, 0, fileSize)

\* Write: refused above the budget; else the bytes replace the range and the
\* tag takes mtime
CacheWrite(c, filePath, offset, size, bytes, mtime) ==
  IF size > MaxFileCacheSize THEN c
  ELSE [c EXCEPT ![filePath] =
          [data  |-> [i \in Range(offset, size) |-> bytes[i - offset + 1]] @@ @.data,
           mtime |-> mtime]]

RECURSIVE ReadFrom(_, _, _)
ReadFrom(data, offset, size) ==
  IF size = 0 \/ offset \notin DOMAIN data THEN <<>>
  ELSE <<data[offset]>> \o ReadFrom(data, offset + 1, size - 1)

\* Read: the bytes produced, from offset up to the first byte not cached
CacheRead(c, filePath, offset, size) == ReadFrom(c[filePath].data, offset, size)

CacheErase(c, key) ==
  IF key \in DOMAIN c THEN [c EXCEPT ![key] = NoFile] ELSE c

-----------------------------------------------------------------------------
(* TransferManager and TransferHandle                                       *)

NullHandle == 0

Fill(size) == [i \in 1..size |-> "z"]

Finished(h) == h.status # "InProgress"

\* TransferManager::DownloadFile: a handle in progress for one ranged GET
DownloadFile(hs, offset, size, by) ==
  Append(hs, [kind |-> "download", offset |-> offset, size |-> size,
              multipart |-> FALSE, status |-> "InProgress",
              data |-> <<>>, by |-> by])

\* TransferManager::UploadFile: multipart above the threshold
TMUploadFile(hs, fileSize) ==
  Append(hs, [kind |-> "upload", offset |-> 0, size |-> fileSize,
              multipart |-> fileSize > MultipartThreshold,
              status |-> "InProgress", data |-> <<>>, by |-> "upload"])

RECURSIVE Chunks(_, _)
Chunks(offset, remainingSize) ==
  IF remainingSize <= 0 THEN <<>>
  ELSE LET n == Min(remainingSize, TransferMaxBufSize)
       IN <<[offset |-> offset, size |-> n]>> \o Chunks(offset + n, remainingSize - n)

\* DownloadFileContentRanges(async = true): the downloads it submits
RECURSIVE RangeChunks(_, _)
RangeChunks(c, ranges) ==
  IF ranges = <<>> THEN <<>>
  ELSE LET r == Head(ranges)
       IN (IF HasFileData(c, FileX, r.offset, r.size) THEN <<>>
           ELSE Chunks(r.offset, r.size))
          \o RangeChunks(c, Tail(ranges))

NewTasks(c, ranges, mtime) ==
  LET cs == RangeChunks(c, ranges)
  IN [i \in 1..Len(cs) |-> [offset |-> cs[i].offset, size |-> cs[i].size,
                            mtime |-> mtime, handle |-> NullHandle]]

IdleReader ==
  [pc |-> "idle", offset |-> 0, size |-> 0, modified |-> FALSE, exist |-> FALSE,
   fileSize |-> 0, downloadSize |-> 0, remainingSize |-> 0, mtime |-> 0,
   handle |-> NullHandle, log |-> <<>>, ret |-> <<>>, wsnap |-> <<>>,
   wend |-> <<>>, uploaded |-> FALSE, inflight |-> {}]

IdleUpload ==
  [pc |-> "idle", fileSize |-> 0, ranges |-> <<>>, chunks |-> <<>>,
   mtime |-> 0, handle |-> NullHandle, dl |-> NullHandle]

\* the paths of the rename calls
DirA == <<"/", "a", "/">>

DirAB == <<"/", "a", "/", "b", "/">>

FileAF == <<"/", "a", "/", "f">>

FileC == <<"/", "c">>

DirE == <<"/", "e", "/">>

FileK == <<"/", "k">>

\* the objects of the bucket at mount time, each with its mtime
InitObjects == [p \in {DirA, DirAB, FileAF, FileC} |-> 1]

IdleRename ==
  [pc |-> "idle", op |-> "none", old |-> NullPath, new |-> NullPath,
   doCheck |-> FALSE, parent |-> NullNode, good |-> FALSE, pre |-> <<>>,
   sent |-> 0]

RenameIdle ==
  /\ objects = InitObjects
  /\ moves = <<>>
  /\ listings = {}
  /\ lastRename = IdleRename
  /\ nRename = 0

\* Retry::DefaultScaleFactor
DefaultScaleFactor == 25

\* GetDefaultRetryStrategy
GetDefaultRetryStrategy ==
  [m_maxRetryTimes |-> MaxRetryTimes, m_scaleFactor |-> DefaultScaleFactor]

IdleCall ==
  [pc |-> "idle", attemptedRetries |-> 0, errors |-> <<>>, delays |-> <<>>,
   status |-> "NotStarted", returned |-> "none"]

RetryIdle ==
  /\ retryStrategy = GetDefaultRetryStrategy
  /\ clientCall = IdleCall

HeadCallers == {"OpenFile", "WriteFile", "UploadFile"} \cup Readers

NoWrite == [offset |-> 0, size |-> 0, byte |-> "", ret |-> 0]

\* no Drive operation on the tree called yet, no request made
NoCall ==
  [pc |-> "idle", op |-> "none", path |-> NullPath, flag |-> FALSE,
   doCheck |-> FALSE, mode |-> {}, node |-> NullNode, modified |-> FALSE,
   good |-> TRUE, ret |-> "none", range |-> {}, sent |-> 0,
   listed |-> <<>>, todo |-> {}]

OpsIdle ==
  /\ requests = <<>>
  /\ lastCall = NoCall
  /\ nCall = 0

\* FileMetaData::FileAccess not called yet
NoAccess ==
  [pc |-> "idle", m_filePath |-> NullPath, m_uid |-> 0, m_gid |-> 0,
   m_fileMode |-> {}, uid |-> 0, gid |-> 0, amode |-> {}, ret |-> FALSE]

\* FileMetaDataManager::m_map of a list: each path to the object of its slot
ManagerMap(mgr) == [p \in { mgr[i].path : i \in 1..Len(mgr) } |->
                      mgr[MgrIndex(mgr, p)].meta]

\* DownloadFileContentRanges not called yet
NoRange ==
  [pc |-> "idle", offset |-> 0, size |-> 0, bufSize |-> 0,
   fileContentExist |-> FALSE, remainingSize |-> 0, downloadedSize |-> 0,
   reqs |-> <<>>]

\* nobody holds the lock of the tree, no Grow or FindChildren under way
NoHolder == "none"

IdleGrow ==
  [pc |-> "idle", meta |-> FileMetaData(ROOT_PATH, 0, 1, "Directory"),
   node |-> NullNode]

NoFindChildren ==
  [pc |-> "idle", dirName |-> NullPath, range |-> {}, holder |-> NoHolder,
   grow |-> "idle"]

LockIdle ==
  /\ m_mutex = NoHolder
  /\ gr = IdleGrow
  /\ fc = NoFindChildren

Writers == {"w1", "w2"}

\* a caller that has not called WriteFile yet
IdleWriter == [pc |-> "idle", offset |-> 0, size |-> 0, extend |-> FALSE, ret |-> 0]

DriveIdle ==
  /\ RenameIdle
  /\ OpsIdle
  /\ dr = NoRange
  /\ wr = [t \in Writers |-> IdleWriter]
  /\ LockIdle
  /\ m_mapOfManager = ManagerMap(m_metaDatas)
  /\ access = NoAccess
  /\ store = StoreBytes
  /\ m_cache = [k \in CacheKeys |-> NoFile]
  /\ handles = <<>>
  /\ tasks = <<>>
  /\ rd = [t \in Readers |-> IdleReader]
  /\ up = IdleUpload
  /\ m_unfinishedMultipartUploadHandles = <<>>
  /\ aborts = {}
  /\ destroyed = FALSE
  /\ wlog = <<>>
  /\ nWrite = 0
  /\ lastWrite = NoWrite
  /\ heads = [c \in HeadCallers |-> 0]

-----------------------------------------------------------------------------
(* The tree after construction *)

\* DirectoryTree::DirectoryTree: the root Node, owned by m_root and current
RootMeta == FileMetaData(ROOT_PATH, 0, 1, "Directory")

NoGrow == [meta |-> RootMeta, node |-> NullNode, created |-> FALSE]

TreeInit ==
  /\ metas = <<RootMeta>>
  /\ m_metaDatas = <<[path |-> ROOT_PATH, meta |-> 1]>>
  /\ nodes = <<NewNode(1)>>
  /\ m_root = 1
  /\ m_currentNode = 1
  /\ m_map = (ROOT_PATH :> 1)
  /\ m_parentToChildrenMap = {}
  /\ nGrow = 0
  /\ lastGrow = NoGrow
  /\ orphans = {}
  /\ DriveIdle
  /\ RetryIdle

TreeNext == GrowAny /\ UNCHANGED <<driveVars, renameVars>>

TreeSpec == TreeInit /\ [][TreeNext]_vars

\* metadata of paths without a parent directory component
NoParentPaths == { <<"c">>, <<"d">> }

NoParentInputs ==
  { FileMetaData(<<"c">>, 0, t, "File") : t \in MTimes }
  \cup { FileMetaData(<<"d">>, 0, t, "Directory") : t \in MTimes }

NoParentNext ==
  /\ \E meta \in NoParentInputs
               \cup { g \in GrowInputs : Len(g.m_filePath) <= 3 /\ g.m_mtime = 1 } :
        Grow(meta)
  /\ UNCHANGED <<driveVars, renameVars>>

NoParentSpec == TreeInit /\ [][NoParentNext]_vars

-----------------------------------------------------------------------------
(* Drive                                                                    *)

callState == <<m_metaDatas, m_map, m_parentToChildrenMap, m_root,
               m_currentNode, nGrow, lastGrow, orphans, renameVars,
               retryVars, opsVars, dataVars>>

treeState == <<callState, lastWrite, heads>>

\* Drive::GetNode of the file, whose Node is found: Client::Stat heads it
HeadFile(by) == heads' = [heads EXCEPT ![by] = @ + 1]

\* Drive::OpenFile.  modified is what the HEAD of GetNode reports.
OpenFile(modified) ==
  LET fileSize == FileMeta.m_fileSize
      ranges   == GetUnloadedRanges(m_cache, FileX, fileSize)
      mtime    == FileMeta.m_mtime
      fileContentExist == HasFileData(m_cache, FileX, 0, fileSize)
  IN /\ ~destroyed
     /\ ~FileMeta.m_fileOpen
     /\ tasks' = IF ~fileContentExist \/ modified
                 THEN tasks \o NewTasks(m_cache, ranges, mtime)
                 ELSE tasks
     /\ metas' = [metas EXCEPT ![FileEntry].m_fileOpen = TRUE]
     /\ HeadFile("OpenFile")
     /\ UNCHANGED <<nodes, callState, lastWrite, store, m_cache, handles, rd, up,
                    m_unfinishedMultipartUploadHandles, aborts, destroyed,
                    wlog, nWrite>>

\* Drive::WriteFile without the test of IsFileOpen
WriteFile_IgnoresOpen(offset, byte, now, cacheOk) ==
  LET size == 1
  IN /\ ~destroyed
     /\ nWrite < MaxWrite
     /\ nWrite' = nWrite + 1
     /\ lastWrite' = [offset |-> offset, size |-> size, byte |-> byte,
                      ret |-> IF cacheOk THEN size ELSE 0]
     /\ IF ~cacheOk
        THEN UNCHANGED <<m_cache, metas, wlog>>
        ELSE /\ m_cache' = CacheWrite(m_cache, FileX, offset, size, <<byte>>, now)
             /\ metas' = [metas EXCEPT
                  ![FileEntry].m_dirty = TRUE,
                  ![FileEntry].m_fileSize =
                     IF offset + size > @ THEN offset + size ELSE @]
             /\ wlog' = (offset :> byte) @@ wlog
     /\ HeadFile("WriteFile")
     /\ UNCHANGED <<nodes, callState, store, handles, tasks, rd, up,
                    m_unfinishedMultipartUploadHandles, aborts, destroyed>>

\* Drive::WriteFile with SetNeedUpload outside the test of success
WriteFile_DirtyOnFailure(offset, byte, now, cacheOk) ==
  LET size == 1
      open == FileMeta.m_fileOpen
  IN /\ ~destroyed
     /\ nWrite < MaxWrite
     /\ nWrite' = nWrite + 1
     /\ lastWrite' = [offset |-> offset, size |-> size, byte |-> byte,
                      ret |-> IF open /\ cacheOk THEN size ELSE 0]
     /\ IF ~open
        THEN UNCHANGED <<m_cache, metas, wlog>>
        ELSE IF ~cacheOk
        THEN /\ metas' = [metas EXCEPT ![FileEntry].m_dirty = TRUE]
             /\ UNCHANGED <<m_cache, wlog>>
        ELSE /\ m_cache' = CacheWrite(m_cache, FileX, offset, size, <<byte>>, now)
             /\ metas' = [metas EXCEPT
                  ![FileEntry].m_dirty = TRUE,
                  ![FileEntry].m_fileSize =
                     IF offset + size > @ THEN offset + size ELSE @]
             /\ wlog' = (offset :> byte) @@ wlog
     /\ HeadFile("WriteFile")
     /\ UNCHANGED <<nodes, callState, store, handles, tasks, rd, up,
                    m_unfinishedMultipartUploadHandles, aborts, destroyed>>

\* Drive::WriteFile of one byte; now is time(NULL), cacheOk is what
\* Cache::Write returns
WriteFile(offset, byte, now, cacheOk) ==
  LET size == 1
      open == FileMeta.m_fileOpen
  IN /\ ~destroyed
     /\ nWrite < MaxWrite
     /\ nWrite' = nWrite + 1
     /\ lastWrite' = [offset |-> offset, size |-> size, byte |-> byte,
                      ret |-> IF open /\ cacheOk THEN size ELSE 0]
     /\ IF ~open \/ ~cacheOk
        THEN UNCHANGED <<m_cache, metas, wlog>>
        ELSE /\ m_cache' = CacheWrite(m_cache, FileX, offset, size, <<byte>>, now)
             /\ metas' = [metas EXCEPT
                  ![FileEntry].m_dirty = TRUE,
                  ![FileEntry].m_fileSize =
                     IF offset + size > @ THEN offset + size ELSE @]
             /\ wlog' = (offset :> byte) @@ wlog
     /\ HeadFile("WriteFile")
     /\ UNCHANGED <<nodes, callState, store, handles, tasks, rd, up,
                    m_unfinishedMultipartUploadHandles, aborts, destroyed>>

\* Drive::ReadFile up to the point where it waits for the download
ReadFileStart(t, offset, size, modified) ==
  LET fileSize == FileMeta.m_fileSize
      over     == offset + size > fileSize
      downloadSize  == IF over THEN WrapU64(fileSize - offset) ELSE size
      remainingSize == IF over THEN 0 ELSE fileSize - (offset + size)
      fileContentExist == HasFileData(m_cache, FileX, offset, size)
      download == ~fileContentExist \/ modified
      r == [rd[t] EXCEPT !.offset = offset, !.size = size,
                         !.modified = modified, !.exist = fileContentExist,
                         !.fileSize = fileSize, !.downloadSize = downloadSize,
                         !.remainingSize = remainingSize,
                         !.mtime = FileMeta.m_mtime, !.wsnap = wlog,
                         !.uploaded = up.pc # "idle",
                         !.inflight = { u \in Readers \ {t} :
                                          rd[u].pc \notin {"idle", "done"} }]
  IN /\ ~destroyed
     /\ rd[t].pc = "idle"
     /\ size <= MaxFileCacheSize
     /\ download => Len(handles) < MaxHandles
     /\ IF download
        THEN /\ handles' = DownloadFile(handles, offset, downloadSize, t)
             /\ rd' = [rd EXCEPT ![t] =
                  [r EXCEPT !.pc = "wait", !.handle = Len(handles) + 1,
                            !.log = <<[ev |-> "get", offset |-> offset,
                                       size |-> downloadSize]>>]]
        ELSE /\ rd' = [rd EXCEPT ![t] = [r EXCEPT !.pc = "schedule"]]
             /\ UNCHANGED handles
     /\ HeadFile(t)
     /\ UNCHANGED <<nodes, metas, callState, lastWrite, store, m_cache, tasks, up,
                    m_unfinishedMultipartUploadHandles, aborts, destroyed,
                    wlog, nWrite>>

\* ... WaitUntilFinished has returned: the stream goes into the cache
ReadFileDownloaded(t) ==
  LET r == rd[t]
      h == handles[r.handle]
  IN /\ ~destroyed
     /\ r.pc = "wait"
     /\ Finished(h)
     /\ m_cache' = CacheWrite(m_cache, FileX, r.offset, r.downloadSize,
                              h.data, r.mtime)
     /\ rd' = [rd EXCEPT ![t].pc = "schedule",
                         ![t].log = Append(@, [ev |-> "write", offset |-> r.offset,
                                               size |-> r.downloadSize,
                                               status |-> h.status,
                                               stored |-> r.downloadSize <= MaxFileCacheSize])]
     /\ UNCHANGED <<nodes, metas, treeState, store, handles, tasks, up,
                    m_unfinishedMultipartUploadHandles, aborts, destroyed,
                    wlog, nWrite>>

\* ... the asynchronous download of what is not loaded yet
ReadFileSchedule(t) ==
  LET r == rd[t]
      ranges == GetUnloadedRanges(m_cache, FileX, r.fileSize)
      new == IF r.remainingSize > 0 THEN NewTasks(m_cache, ranges, r.mtime)
             ELSE <<>>
  IN /\ ~destroyed
     /\ r.pc = "schedule"
     /\ tasks' = tasks \o new
     /\ rd' = [rd EXCEPT ![t].pc = "read",
                         ![t].log = @ \o [i \in 1..Len(new) |->
                                            [ev |-> "async", offset |-> new[i].offset,
                                             size |-> new[i].size,
                                             unloaded |->
                                               \A o \in Range(new[i].offset, new[i].size) :
                                                 o \notin DOMAIN m_cache[FileX].data]]]
     /\ UNCHANGED <<nodes, metas, treeState, store, m_cache, handles, up,
                    m_unfinishedMultipartUploadHandles, aborts, destroyed,
                    wlog, nWrite>>

\* ... the read from the cache
ReadFileRead(t) ==
  LET r == rd[t]
  IN /\ ~destroyed
     /\ r.pc = "read"
     /\ rd' = [rd EXCEPT ![t].pc = "done",
                         ![t].ret = CacheRead(m_cache, FileX, r.offset, r.downloadSize),
                         ![t].wend = wlog,
                         ![t].uploaded = @ \/ up.pc # "idle",
                         ![t].log = Append(@, [ev |-> "read"])]
     /\ UNCHANGED <<nodes, metas, treeState, store, m_cache, handles, tasks, up,
                    m_unfinishedMultipartUploadHandles, aborts, destroyed,
                    wlog, nWrite>>

\* executor: the task of an asynchronous range download runs
TaskRun(i) ==
  /\ ~destroyed
  /\ tasks[i].handle = NullHandle
  /\ Len(handles) < MaxHandles
  /\ handles' = DownloadFile(handles, tasks[i].offset, tasks[i].size, "task")
  /\ tasks' = [tasks EXCEPT ![i].handle = Len(handles) + 1]
  /\ UNCHANGED <<nodes, metas, treeState, store, m_cache, rd, up,
                 m_unfinishedMultipartUploadHandles, aborts, destroyed,
                 wlog, nWrite>>

\* executor: its callback, once the handle has finished
TaskCallback(i) ==
  /\ ~destroyed
  /\ tasks[i].handle # NullHandle
  /\ Finished(handles[tasks[i].handle])
  /\ m_cache' = CacheWrite(m_cache, FileX, tasks[i].offset, tasks[i].size,
                           handles[tasks[i].handle].data, tasks[i].mtime)
  /\ tasks' = RemoveAt(tasks, i)
  /\ UNCHANGED <<nodes, metas, treeState, store, handles, rd, up,
                 m_unfinishedMultipartUploadHandles, aborts, destroyed,
                 wlog, nWrite>>

\* Drive::UploadFile, the caller's part: checks, then the task is submitted
UploadFile ==
  /\ ~destroyed
  /\ up.pc = "idle"
  /\ FileMeta.m_dirty
  /\ up' = [up EXCEPT !.pc = "task",
                      !.fileSize = FileMeta.m_fileSize,
                      !.ranges = GetUnloadedRanges(m_cache, FileX, FileMeta.m_fileSize),
                      !.mtime = FileMeta.m_mtime]
  /\ HeadFile("UploadFile")
  /\ UNCHANGED <<nodes, metas, callState, lastWrite, store, m_cache, handles, tasks, rd,
                 m_unfinishedMultipartUploadHandles, aborts, destroyed,
                 wlog, nWrite>>

\* DownloadFileContentRanges(async = false), the position of its loops: the
\* ranges still to visit and the chunks left of the range being downloaded
RECURSIVE NextChunk(_, _, _)
NextChunk(c, ranges, chunks) ==
  IF chunks # <<>> \/ ranges = <<>> THEN [ranges |-> ranges, chunks |-> chunks]
  ELSE LET r == Head(ranges)
       IN NextChunk(c, Tail(ranges),
                    IF HasFileData(c, FileX, r.offset, r.size) THEN <<>>
                    ELSE Chunks(r.offset, r.size))

\* the task: the next synchronous download of an unloaded chunk
UploadTaskDownload ==
  LET nx == NextChunk(m_cache, up.ranges, up.chunks)
  IN /\ ~destroyed
     /\ up.pc = "task"
     /\ nx.chunks # <<>>
     /\ Len(handles) < MaxHandles
     /\ handles' = DownloadFile(handles, Head(nx.chunks).offset,
                                Head(nx.chunks).size, "upload")
     /\ up' = [up EXCEPT !.pc = "dlwait", !.ranges = nx.ranges,
                         !.chunks = Tail(nx.chunks), !.dl = Len(handles) + 1]
     /\ UNCHANGED <<nodes, metas, treeState, store, m_cache, tasks, rd,
                    m_unfinishedMultipartUploadHandles, aborts, destroyed,
                    wlog, nWrite>>

UploadTaskDownloaded ==
  LET h == handles[up.dl]
  IN /\ ~destroyed
     /\ up.pc = "dlwait"
     /\ Finished(h)
     /\ m_cache' = CacheWrite(m_cache, FileX, h.offset, h.size, h.data, up.mtime)
     /\ up' = [up EXCEPT !.pc = "task"]
     /\ UNCHANGED <<nodes, metas, treeState, store, handles, tasks, rd,
                    m_unfinishedMultipartUploadHandles, aborts, destroyed,
                    wlog, nWrite>>

\* the task: every range is loaded, TransferManager::UploadFile gives the handle
UploadTaskUpload ==
  LET nx == NextChunk(m_cache, up.ranges, up.chunks)
  IN /\ ~destroyed
     /\ up.pc = "task"
     /\ nx.chunks = <<>>
     /\ Len(handles) < MaxHandles
     /\ handles' = TMUploadFile(handles, up.fileSize)
     /\ up' = [up EXCEPT !.pc = "callback", !.ranges = <<>>,
                         !.handle = Len(handles) + 1]
     /\ UNCHANGED <<nodes, metas, treeState, store, m_cache, tasks, rd,
                    m_unfinishedMultipartUploadHandles, aborts, destroyed,
                    wlog, nWrite>>

\* the callback up to WaitUntilFinished
UploadCallback ==
  LET h == handles[up.handle]
  IN /\ ~destroyed
     /\ up.pc = "callback"
     /\ metas' = [metas EXCEPT ![FileEntry].m_dirty = FALSE,
                               ![FileEntry].m_fileOpen = FALSE]
     /\ m_unfinishedMultipartUploadHandles' =
          IF h.multipart
          THEN MapEmplace(m_unfinishedMultipartUploadHandles,
                          ObjectKey(FileX), up.handle)
          ELSE m_unfinishedMultipartUploadHandles
     /\ up' = [up EXCEPT !.pc = "upwait"]
     /\ UNCHANGED <<nodes, treeState, store, m_cache, handles, tasks, rd,
                    aborts, destroyed, wlog, nWrite>>

\* the callback after WaitUntilFinished
UploadCallbackFinished ==
  LET key == ObjectKey(FileX)
  IN /\ ~destroyed
     /\ up.pc = "upwait"
     /\ Finished(handles[up.handle])
     /\ m_unfinishedMultipartUploadHandles' =
          [k \in DOMAIN m_unfinishedMultipartUploadHandles \ {key} |->
             m_unfinishedMultipartUploadHandles[k]]
     /\ m_cache' = CacheErase(m_cache, key)
     /\ up' = [up EXCEPT !.pc = "done"]
     /\ UNCHANGED <<nodes, metas, treeState, store, handles, tasks, rd,
                    aborts, destroyed, wlog, nWrite>>

\* the transfer of a handle ends: a download gives the bytes of the range,
\* an upload puts the cached bytes of the file; either may fail
HandleFinish(i, ok) ==
  LET h == handles[i]
  IN /\ ~destroyed
     /\ h.status = "InProgress"
     /\ IF h.kind = "download"
        THEN /\ ok => h.offset + h.size <= Len(store)
             /\ handles' = [handles EXCEPT
                  ![i].status = IF ok THEN "Completed" ELSE "Failed",
                  ![i].data = IF ok THEN SubSeq(store, h.offset + 1, h.offset + h.size)
                              ELSE IF h.size <= MaxFileCacheSize THEN Fill(h.size)
                              ELSE <<>>]
             /\ UNCHANGED store
        ELSE /\ handles' = [handles EXCEPT
                  ![i].status = IF ok THEN "Completed" ELSE "Failed"]
             /\ store' = IF ok
                         THEN [k \in 1..h.size |->
                                 IF (k - 1) \in DOMAIN m_cache[FileX].data
                                 THEN m_cache[FileX].data[k - 1] ELSE "z"]
                         ELSE store
     /\ UNCHANGED <<nodes, metas, treeState, m_cache, tasks, rd, up,
                    m_unfinishedMultipartUploadHandles, aborts, destroyed,
                    wlog, nWrite>>

\* Cache: the pages of a file neither dirty nor open are evicted
Evict ==
  /\ ~destroyed
  /\ ~FileMeta.m_dirty
  /\ ~FileMeta.m_fileOpen
  /\ m_cache[FileX].data # <<>>
  /\ m_cache' = [m_cache EXCEPT ![FileX] = NoFile]
  /\ UNCHANGED <<nodes, metas, treeState, store, handles, tasks, rd, up,
                 m_unfinishedMultipartUploadHandles, aborts, destroyed,
                 wlog, nWrite>>

\* Drive::~Drive: every handle of the map is aborted
DriveDtor ==
  LET hs == { m_unfinishedMultipartUploadHandles[k] :
                k \in DOMAIN m_unfinishedMultipartUploadHandles }
  IN /\ ~destroyed
     /\ destroyed' = TRUE
     /\ aborts' = aborts \cup hs
     /\ handles' = [i \in 1..Len(handles) |->
                      IF i \in hs /\ handles[i].status = "InProgress"
                      THEN [handles[i] EXCEPT !.status = "Aborted"]
                      ELSE handles[i]]
     /\ m_unfinishedMultipartUploadHandles' = <<>>
     /\ UNCHANGED <<nodes, metas, treeState, store, m_cache, tasks, rd, up,
                    wlog, nWrite>>

\* a mounted Drive whose tree holds the root and the file
FileXMeta == FileMetaData(FileX, Len(StoreBytes), 1, "File")

DriveMounted ==
  /\ metas = <<RootMeta, FileXMeta>>
  /\ m_metaDatas = <<[path |-> FileX, meta |-> 2], [path |-> ROOT_PATH, meta |-> 1]>>
  /\ nodes = <<[NewNode(1) EXCEPT !.m_children = (FileX :> 2)],
               [NewNode(2) EXCEPT !.m_parent = 1]>>
  /\ m_root = 1
  /\ m_currentNode = 2
  /\ m_map = (ROOT_PATH :> 1) @@ (FileX :> 2)
  /\ m_parentToChildrenMap = {<<ROOT_PATH, 2>>}
  /\ nGrow = 0
  /\ lastGrow = NoGrow
  /\ orphans = {}
  /\ DriveIdle

DriveInit == DriveMounted /\ RetryIdle

DriveReaders == {"r1"}

DriveNext ==
  \/ \E modified \in BOOLEAN : OpenFile(modified)
  \/ \E offset \in WriteOffsets, now \in WriteTimes : WriteFile(offset, "w", now, TRUE)
  \/ \E t \in DriveReaders, r \in ReadRanges, modified \in BOOLEAN :
        ReadFileStart(t, r[1], r[2], modified)
  \/ \E t \in DriveReaders : ReadFileDownloaded(t)
  \/ \E t \in DriveReaders : ReadFileSchedule(t)
  \/ \E t \in DriveReaders : ReadFileRead(t)
  \/ \E i \in 1..Len(tasks) : TaskRun(i)
  \/ \E i \in 1..Len(tasks) : TaskCallback(i)
  \/ UploadFile
  \/ UploadTaskDownload
  \/ UploadTaskDownloaded
  \/ UploadTaskUpload
  \/ UploadCallback
  \/ UploadCallbackFinished
  \/ \E i \in 1..Len(handles), ok \in BOOLEAN : HandleFinish(i, ok)
  \/ Evict

DriveSpec == DriveInit /\ [][DriveNext]_vars

\* the uploads of a Drive and its destruction
UploadNext ==
  \/ \E modified \in BOOLEAN : OpenFile(modified)
  \/ \E offset \in WriteOffsets, now \in WriteTimes : WriteFile(offset, "w", now, TRUE)
  \/ \E i \in 1..Len(tasks) : TaskRun(i)
  \/ \E i \in 1..Len(tasks) : TaskCallback(i)
  \/ UploadFile
  \/ UploadTaskDownload
  \/ UploadTaskDownloaded
  \/ UploadTaskUpload
  \/ UploadCallback
  \/ UploadCallbackFinished
  \/ \E i \in 1..Len(handles), ok \in BOOLEAN : HandleFinish(i, ok)
  \/ DriveDtor

UploadSpec == DriveInit /\ [][UploadNext]_vars

\* TransferManager::RetryDownload, RetryUpload: the handle of a transfer that
\* ended without completing is restarted; the handle stays the same object
RetryTransfer(hs, i) ==
  IF hs[i].status \in {"InProgress", "Completed"} THEN hs
  ELSE [hs EXCEPT ![i].status = "InProgress", ![i].data = <<>>]

RetryDownload(i) ==
  /\ ~destroyed
  /\ handles[i].kind = "download"
  /\ handles' = RetryTransfer(handles, i)
  /\ UNCHANGED <<nodes, metas, treeState, store, m_cache, tasks, rd, up,
                 m_unfinishedMultipartUploadHandles, aborts, destroyed,
                 wlog, nWrite>>

RetryUpload(i) ==
  /\ ~destroyed
  /\ handles[i].kind = "upload"
  /\ handles' = RetryTransfer(handles, i)
  /\ UNCHANGED <<nodes, metas, treeState, store, m_cache, tasks, rd, up,
                 m_unfinishedMultipartUploadHandles, aborts, destroyed,
                 wlog, nWrite>>

\* TransferManager::AbortMultipartUpload: a multipart upload in progress is
\* aborted
AbortMultipartUpload(i) ==
  /\ ~destroyed
  /\ handles[i].multipart
  /\ aborts' = aborts \cup {i}
  /\ handles' = IF handles[i].status = "InProgress"
                THEN [handles EXCEPT ![i].status = "Aborted"]
                ELSE handles
  /\ UNCHANGED <<nodes, metas, treeState, store, m_cache, tasks, rd, up,
                 m_unfinishedMultipartUploadHandles, destroyed, wlog, nWrite>>

\* the transfers of a Drive, retried and aborted
TransferNext ==
  \/ \E modified \in BOOLEAN : OpenFile(modified)
  \/ \E offset \in WriteOffsets, now \in WriteTimes : WriteFile(offset, "w", now, TRUE)
  \/ \E i \in 1..Len(tasks) : TaskRun(i)
  \/ \E i \in 1..Len(tasks) : TaskCallback(i)
  \/ UploadFile
  \/ UploadTaskDownload
  \/ UploadTaskDownloaded
  \/ UploadTaskUpload
  \/ UploadCallback
  \/ UploadCallbackFinished
  \/ \E i \in 1..Len(handles), ok \in BOOLEAN : HandleFinish(i, ok)
  \/ \E i \in 1..Len(handles) : RetryDownload(i)
  \/ \E i \in 1..Len(handles) : RetryUpload(i)
  \/ \E i \in 1..Len(handles) : AbortMultipartUpload(i)

TransferSpec == DriveInit /\ [][TransferNext]_vars

\* two callers of ReadFile at once, with the executor and the transfers
ReadersNext ==
  \/ \E t \in Readers, r \in ReadRanges, modified \in BOOLEAN :
        ReadFileStart(t, r[1], r[2], modified)
  \/ \E t \in Readers : ReadFileDownloaded(t)
  \/ \E t \in Readers : ReadFileSchedule(t)
  \/ \E t \in Readers : ReadFileRead(t)
  \/ \E i \in 1..Len(tasks) : TaskRun(i)
  \/ \E i \in 1..Len(tasks) : TaskCallback(i)
  \/ \E i \in 1..Len(handles), ok \in BOOLEAN : HandleFinish(i, ok)

ReadersSpec == DriveInit /\ [][ReadersNext]_vars

\* the writes of a Drive, with a Cache::Write that may fail, and a reader
WriteNext ==
  \/ \E modified \in BOOLEAN : OpenFile(modified)
  \/ \E offset \in WriteOffsets, now \in WriteTimes, cacheOk \in BOOLEAN :
        WriteFile(offset, "w", now, cacheOk)
  \/ \E t \in DriveReaders, r \in ReadRanges :
        ReadFileStart(t, r[1], r[2], FALSE)
  \/ \E t \in DriveReaders : ReadFileDownloaded(t)
  \/ \E t \in DriveReaders : ReadFileSchedule(t)
  \/ \E t \in DriveReaders : ReadFileRead(t)
  \/ \E i \in 1..Len(tasks) : TaskRun(i)
  \/ \E i \in 1..Len(tasks) : TaskCallback(i)
  \/ \E i \in 1..Len(handles), ok \in BOOLEAN : HandleFinish(i, ok)
  \/ Evict

WriteSpec == DriveInit /\ [][WriteNext]_vars

\* the ranges of a read of nothing and of a read of the first byte
ColdRanges == { <<0, 0>>, <<0, 1>> }

\* a file is opened and read while nothing of it is cached
ColdReadNext ==
  \/ \E modified \in BOOLEAN : OpenFile(modified)
  \/ \E t \in DriveReaders, r \in ColdRanges, modified \in BOOLEAN :
        ReadFileStart(t, r[1], r[2], modified)
  \/ \E t \in DriveReaders : ReadFileDownloaded(t)
  \/ \E t \in DriveReaders : ReadFileSchedule(t)
  \/ \E t \in DriveReaders : ReadFileRead(t)
  \/ \E i \in 1..Len(tasks) : TaskRun(i)
  \/ \E i \in 1..Len(tasks) : TaskCallback(i)
  \/ \E i \in 1..Len(handles), ok \in BOOLEAN : HandleFinish(i, ok)

ColdReadSpec == DriveInit /\ [][ColdReadNext]_vars

-----------------------------------------------------------------------------
(* RetryStrategy and a client call made under it                           *)

\* the errors of the client; the transient ones are those to retry
ClientErrors == {"Timeout", "ServiceUnavailable", "NotFound", "AccessDenied"}

\* ClientError::ShouldRetry
ErrorShouldRetry(error) == error \in {"Timeout", "ServiceUnavailable"}

\* RetryStrategy::ShouldRetry with > for >=
ShouldRetry_OffByOne(error, attemptedRetryTimes) ==
  IF attemptedRetryTimes > retryStrategy.m_maxRetryTimes THEN FALSE
  ELSE ErrorShouldRetry(error)

\* RetryStrategy::ShouldRetry
ShouldRetry(error, attemptedRetryTimes) ==
  IF attemptedRetryTimes >= retryStrategy.m_maxRetryTimes THEN FALSE
  ELSE ErrorShouldRetry(error)

\* RetryStrategy::CalculateDelayBeforeNextRetry; the shift stays far below
\* the width of its operands for the retry counts of the model
CalculateDelayBeforeNextRetry(error, attemptedRetryTimes) ==
  IF attemptedRetryTimes = 0 THEN 0
  ELSE (2 ^ attemptedRetryTimes) * retryStrategy.m_scaleFactor

\* the strategies a client is configured with
RetryStrategies ==
  [m_maxRetryTimes : 0..MaxRetryTimes, m_scaleFactor : {1, DefaultScaleFactor}]

\* the client sends the request of a transfer
CallStart ==
  /\ clientCall.pc = "idle"
  /\ clientCall' = [clientCall EXCEPT !.pc = "request", !.status = "InProgress"]
  /\ UNCHANGED <<treeVars, store, m_cache, handles, tasks, rd, up,
                 m_unfinishedMultipartUploadHandles, aborts, destroyed, wlog,
                 nWrite, lastWrite, heads, renameVars, opsVars, dataVars,
                 retryStrategy>>

\* the request succeeds
CallSucceeds ==
  /\ clientCall.pc = "request"
  /\ clientCall' = [clientCall EXCEPT !.pc = "done", !.status = "Completed"]
  /\ UNCHANGED <<treeVars, store, m_cache, handles, tasks, rd, up,
                 m_unfinishedMultipartUploadHandles, aborts, destroyed, wlog,
                 nWrite, lastWrite, heads, renameVars, opsVars, dataVars,
                 retryStrategy>>

\* the request fails with error: the strategy decides between the delay
\* before the next retry and the return of the error
CallFails(error) ==
  /\ clientCall.pc = "request"
  /\ clientCall' =
       IF ShouldRetry(error, clientCall.attemptedRetries)
       THEN [clientCall EXCEPT
               !.pc = "sleep",
               !.errors = Append(@, error),
               !.delays = Append(@, CalculateDelayBeforeNextRetry(
                                       error, clientCall.attemptedRetries))]
       ELSE [clientCall EXCEPT !.pc = "done", !.errors = Append(@, error),
                         !.status = "Failed", !.returned = error]
  /\ UNCHANGED <<treeVars, store, m_cache, handles, tasks, rd, up,
                 m_unfinishedMultipartUploadHandles, aborts, destroyed, wlog,
                 nWrite, lastWrite, heads, renameVars, opsVars, dataVars,
                 retryStrategy>>

\* the delay is over: the request is sent again
CallRetries ==
  /\ clientCall.pc = "sleep"
  /\ clientCall' = [clientCall EXCEPT !.pc = "request",
                          !.attemptedRetries = @ + 1]
  /\ UNCHANGED <<treeVars, store, m_cache, handles, tasks, rd, up,
                 m_unfinishedMultipartUploadHandles, aborts, destroyed, wlog,
                 nWrite, lastWrite, heads, renameVars, opsVars, dataVars,
                 retryStrategy>>

RetryInit ==
  /\ DriveMounted
  /\ retryStrategy \in RetryStrategies
  /\ clientCall = IdleCall

RetryNext ==
  \/ CallStart
  \/ CallSucceeds
  \/ \E error \in ClientErrors : CallFails(error)
  \/ CallRetries

RetrySpec == RetryInit /\ [][RetryNext]_vars

-----------------------------------------------------------------------------
(* Observations of the directory tree *)

LiveNodes == { n \in 1..Len(nodes) : nodes[n].alive }

NodeAt(p) == Find(Heap, m_map, p)

NoMeta == FileMetaData(NullPath, 0, 0, "File")

MetaOf(n) == IF NodeEntryOk(Heap, n) THEN metas[nodes[n].m_entry] ELSE NoMeta

\* the tree as a caller can observe it: the indices, the links between the
\* Nodes and the metadata each Node carries (not the identity of the
\* FileMetaData objects)
TreeView ==
  [ map      |-> m_map,
    index    |-> m_parentToChildrenMap,
    root     |-> m_root,
    current  |-> m_currentNode,
    nodes    |-> [ n \in 1..Len(nodes) |->
                     [ alive    |-> nodes[n].alive,
                       parent   |-> nodes[n].m_parent,
                       children |-> nodes[n].m_children,
                       meta     |-> MetaOf(n) ] ] ]

-----------------------------------------------------------------------------
(* Rename                                                                   *)

IsDirPath(p) == p # NullPath /\ Last(p) = "/"

HasPrefix(p, prefix) ==
  Len(p) >= Len(prefix) /\ SubSeq(p, 1, Len(prefix)) = prefix

Reprefix(p, old, new) == new \o SubSeq(p, Len(old) + 1, Len(p))

\* the metadata a HEAD of the object at path answers with
ObjectMeta(objs, path) ==
  IF IsDirPath(path)
  THEN FileMetaData(path, 0, objs[path], "Directory")
  ELSE FileMetaData(path, 1, objs[path], "File")

\* Client::MoveFile on the store: the object at src becomes the object at dst
MoveFile(objs, src, dst, now) ==
  IF src \notin DOMAIN objs THEN objs
  ELSE [p \in (DOMAIN objs \ {src}) \cup {dst} |->
          IF p = dst THEN now ELSE objs[p]]

\* Client::MoveDirectory on the store: every object under src moves under dst
MoveDirectory(objs, src, dst, now) ==
  IF src \notin DOMAIN objs THEN objs
  ELSE LET moved == { p \in DOMAIN objs : HasPrefix(p, src) }
           kept  == DOMAIN objs \ moved
           there == { Reprefix(p, src, dst) : p \in moved }
       IN [p \in kept \cup there |-> IF p \in there THEN now ELSE objs[p]]

\* Node::RenameChild
NodeRenameChild(h, parent, oldFilePath, newFilePath) ==
  LET children == h.nodes[parent].m_children
  IN IF oldFilePath = newFilePath THEN h
     ELSE IF newFilePath \in DOMAIN children THEN h
     ELSE IF oldFilePath \in DOMAIN children
     THEN LET tmp == children[oldFilePath]
              h1  == IF NodeEntryOk(h, tmp)
                     THEN [h EXCEPT !.metas[h.nodes[tmp].m_entry].m_filePath =
                                      newFilePath]
                     ELSE h
          IN [h1 EXCEPT !.nodes[parent].m_children =
                [k \in (DOMAIN children \ {oldFilePath}) \cup {newFilePath} |->
                   IF k = newFilePath THEN tmp ELSE children[k]]]
     ELSE h

treeOnly == <<nodes, metas, m_metaDatas, m_map, m_parentToChildrenMap,
              m_root, m_currentNode, lastGrow, orphans>>

\* Drive::GetNode: the HEAD of a Node that is found, with its mtime as
\* modifiedSince, reports whether the object is newer
GetNodeModified(objs, path) ==
  LET node == Find(Heap, m_map, path)
  IN /\ node # NullNode
     /\ path \in DOMAIN objs
     /\ objs[path] > metas[nodes[node].m_entry].m_mtime

GetNodeLists_NotAsked(objs, path, updateIfDirectory) ==
  LET node == Find(Heap, m_map, path)
  IN /\ node # NullNode
     /\ NodeEntryOk(Heap, node)
     /\ IsDirectory(Heap, node)
     /\ GetNodeModified(objs, path)

\* Drive::GetNode: the condition under which it submits the ListDirectory
GetNodeLists(objs, path, updateIfDirectory) ==
  LET node == Find(Heap, m_map, path)
  IN /\ node # NullNode
     /\ NodeEntryOk(Heap, node)
     /\ IsDirectory(Heap, node)
     /\ updateIfDirectory
     /\ GetNodeModified(objs, path)

\* Drive::GetNode(path, updateIfDirectory) against the store objs: a Node
\* that is found is only asked for its modification, a path that is not
\* found is headed and the answer grows the tree
GetNode(objs, path, updateIfDirectory) ==
  LET node == Find(Heap, m_map, path)
  IN IF node # NullNode
     THEN /\ UNCHANGED treeOnly
          /\ listings' =
               IF GetNodeLists(objs, path, updateIfDirectory)
               THEN listings \cup { p \in DOMAIN objs :
                                      p # path /\ MyDirNameOf(p) = path }
               ELSE listings
     ELSE /\ IF path \in DOMAIN objs
             THEN GrowNode(ObjectMeta(objs, path))
             ELSE UNCHANGED treeOnly
          /\ UNCHANGED listings

RenameOps == {"RenameFile", "RenameDir"}

\* Drive::RenameFile and Drive::RenameDir up to the request of the move
RenameStart(op, filePath, newFilePath, doCheck) ==
  LET found  == Find(Heap, m_map, filePath) # NullNode
                \/ filePath \in DOMAIN objects
      isDir  == IF Find(Heap, m_map, filePath) # NullNode
                THEN IsDirectory(Heap, Find(Heap, m_map, filePath))
                ELSE IsDirPath(filePath)
      passed == /\ ~IsRootDirectory(filePath)
                /\ found
                /\ isDir = (op = "RenameDir")
      call   == [pc |-> "move", op |-> op, old |-> filePath,
                 new |-> IF op = "RenameDir" THEN AppendPathDelim(newFilePath)
                         ELSE newFilePath,
                 doCheck |-> doCheck, parent |-> NullNode, good |-> FALSE,
                 pre |-> TreeView, sent |-> Len(moves)]
  IN /\ lastRename.pc \in {"idle", "done"}
     /\ nRename < MaxRename
     /\ nRename' = nRename + 1
     /\ IF ~doCheck
        THEN /\ lastRename' = call
             /\ UNCHANGED <<treeOnly, listings>>
        ELSE IF IsRootDirectory(filePath)
        THEN /\ lastRename' = [call EXCEPT !.pc = "done"]
             /\ UNCHANGED <<treeOnly, listings>>
        ELSE /\ lastRename' = [call EXCEPT !.pc = IF passed THEN "move" ELSE "done"]
             /\ GetNode(objects, filePath, FALSE)
     /\ UNCHANGED <<nGrow, driveVars, objects, moves>>

\* ... the move on the store and, when it succeeded, GetNode of the new path
RenameMove(now) ==
  LET r    == lastRename
      good == r.old \in DOMAIN objects
      objs == IF r.op = "RenameDir"
              THEN MoveDirectory(objects, r.old, r.new, now)
              ELSE MoveFile(objects, r.old, r.new, now)
  IN /\ r.pc = "move"
     /\ moves' = Append(moves, [op |-> r.op, src |-> r.old, dst |-> r.new])
     /\ objects' = objs
     /\ lastRename' = [r EXCEPT !.pc = "done", !.good = good]
     /\ IF good
        THEN GetNode(objs, r.new, r.op = "RenameDir")
        ELSE UNCHANGED <<treeOnly, listings>>
     /\ UNCHANGED <<nGrow, driveVars, nRename>>

\* executor: the ListDirectory task grows the tree with one more of its metas
ListGrow(p) ==
  /\ p \in listings
  /\ listings' = listings \ {p}
  /\ IF p \in DOMAIN objects
     THEN GrowNode(ObjectMeta(objects, p))
     ELSE UNCHANGED treeOnly
  /\ UNCHANGED <<nGrow, driveVars, objects, moves, lastRename, nRename>>

\* a call of Node::RenameChild on a Directory Node of the tree
RenameChild(parent, oldFilePath, newFilePath) ==
  LET h == NodeRenameChild(Heap, parent, oldFilePath, newFilePath)
  IN /\ lastRename.pc \in {"idle", "done"}
     /\ nRename < MaxRename
     /\ nRename' = nRename + 1
     /\ nodes[parent].alive
     /\ IsDirectory(Heap, parent)
     /\ nodes' = h.nodes
     /\ metas' = h.metas
     /\ lastRename' = [pc |-> "done", op |-> "RenameChild", old |-> oldFilePath,
                       new |-> newFilePath, doCheck |-> FALSE,
                       parent |-> parent, good |-> TRUE, pre |-> TreeView,
                       sent |-> Len(moves)]
     /\ UNCHANGED <<m_metaDatas, m_map, m_parentToChildrenMap, m_root,
                    m_currentNode, nGrow, lastGrow, orphans, driveVars,
                    objects, moves, listings>>

\* a mounted Drive whose tree holds /a/, /a/b/, /a/f and /c
RenameInit ==
  /\ metas = <<[RootMeta EXCEPT !.m_numLink = 3],
               [FileMetaData(DirA, 0, 1, "Directory") EXCEPT !.m_numLink = 3],
               FileMetaData(DirAB, 0, 1, "Directory"),
               FileMetaData(FileAF, 1, 1, "File"),
               FileMetaData(FileC, 1, 1, "File")>>
  /\ m_metaDatas = <<[path |-> FileC, meta |-> 5], [path |-> FileAF, meta |-> 4],
                     [path |-> DirAB, meta |-> 3], [path |-> DirA, meta |-> 2],
                     [path |-> ROOT_PATH, meta |-> 1]>>
  /\ nodes = <<[NewNode(1) EXCEPT !.m_children = (DirA :> 2) @@ (FileC :> 5)],
               [NewNode(2) EXCEPT !.m_parent = 1,
                                  !.m_children = (DirAB :> 3) @@ (FileAF :> 4)],
               [NewNode(3) EXCEPT !.m_parent = 2],
               [NewNode(4) EXCEPT !.m_parent = 2],
               [NewNode(5) EXCEPT !.m_parent = 1]>>
  /\ m_root = 1
  /\ m_currentNode = 5
  /\ m_map = (ROOT_PATH :> 1) @@ (DirA :> 2) @@ (DirAB :> 3) @@ (FileAF :> 4)
             @@ (FileC :> 5)
  /\ m_parentToChildrenMap = {<<ROOT_PATH, 2>>, <<DirA, 3>>, <<DirA, 4>>,
                              <<ROOT_PATH, 5>>}
  /\ nGrow = 0
  /\ lastGrow = NoGrow
  /\ orphans = {}
  /\ DriveIdle
  /\ RetryIdle

RenameSources == {ROOT_PATH, DirA, FileAF, FileC}

RenameTargets == {DirE, <<"/", "e">>, FileK, FileC, DirAB}

RenameNext ==
  \/ \E op \in RenameOps, filePath \in RenameSources,
        newFilePath \in RenameTargets, doCheck \in BOOLEAN :
        RenameStart(op, filePath, newFilePath, doCheck)
  \/ \E now \in MTimes : RenameMove(now)
  \/ \E p \in listings : ListGrow(p)
  \/ \E parent \in 1..Len(nodes), oldFilePath \in RenameSources,
        newFilePath \in RenameTargets :
        RenameChild(parent, oldFilePath, newFilePath)

RenameSpec == RenameInit /\ [][RenameNext]_vars

-----------------------------------------------------------------------------
(* Drive: operations on the Nodes and the directories                       *)

MaxCalls == 2

\* <sys/stat.h>: the file type bits of a mode, each the set of its bits
S_IF ==
  [ S_IFIFO |-> {12}, S_IFCHR |-> {13}, S_IFDIR |-> {14}, S_IFBLK |-> {13, 14},
    S_IFREG |-> {15}, S_IFLNK |-> {13, 15}, S_IFSOCK |-> {14, 15} ]

\* mode & mask, as a condition
BitAnd(mode, mask) == (mode \cap mask) # {}

\* a request made of the client: synchronous, or submitted to the executor
\* (ran: its task has run)
Request(op, path, recursive, async) ==
  [op |-> op, path |-> path, recursive |-> recursive, async |-> async,
   ran |-> ~async]

\* the requests of a kind made since the call began
Sent(rs, from, op) == { k \in (from + 1)..Len(rs) : rs[k].op = op }

\* Node::IsEmpty
NodeIsEmpty(h, n) == DOMAIN h.nodes[n].m_children = {}

\* DirectoryTree::FindChildren: the range of the entries under dirName
FindChildren(index, dirName) == { e \in index : e[1] = dirName }

\* Client::ListDirectory: the paths of the objects directly under dirPath
ListDirectory(objs, dirPath) ==
  { p \in DOMAIN objs : p # dirPath /\ MyDirNameOf(p) = dirPath }

\* the answer of a ListDirectory: the objects under dirPath, as they are
\* when the store answers
Listed(objs, dirPath) == [p \in ListDirectory(objs, dirPath) |-> objs[p]]

\* what Drive::GetNode returns, in the state it leaves
Resolved(path) == Find(Heap', m_map', path)

\* the requests Drive::GetNode makes: the HEAD, then the LIST it submits
GetNodeRequests(objs, path, updateIfDirectory) ==
  IF path = NullPath THEN <<>>
  ELSE <<Request("Stat", path, FALSE, FALSE)>> \o
       ( IF GetNodeLists(objs, path, updateIfDirectory)
         THEN <<Request("ListDirectory", AppendPathDelim(path), FALSE, TRUE)>>
         ELSE <<>> )

CallBegins ==
  /\ lastCall.pc \in {"idle", "done"}
  /\ nCall < MaxCalls
  /\ nCall' = nCall + 1

Returned(op, path, flag, doCheck, mode, node, modified, ret) ==
  [NoCall EXCEPT !.pc = "done", !.op = op, !.path = path, !.flag = flag,
                 !.doCheck = doCheck, !.mode = mode, !.node = node,
                 !.modified = modified, !.ret = ret, !.sent = Len(requests)]

\* a call of Drive::GetNode
DriveGetNode(path, updateIfDirectory) ==
  /\ CallBegins
  /\ GetNode(objects, path, updateIfDirectory)
  /\ requests' = requests \o GetNodeRequests(objects, path, updateIfDirectory)
  /\ lastCall' = Returned("GetNode", path, updateIfDirectory, FALSE, {},
                          Resolved(path), GetNodeModified(objects, path), "node")
  /\ UNCHANGED <<nGrow, store, m_cache, handles, tasks, rd, up,
                 m_unfinishedMultipartUploadHandles, aborts, destroyed, wlog,
                 nWrite, lastWrite, heads, retryVars, dataVars, objects, moves,
                 lastRename, nRename>>

\* Drive::GetChildren up to the synchronous ListDirectory, or to its return
\* when no listing is needed
GetChildren(dirPath) ==
  LET path == IF dirPath = NullPath THEN NullPath ELSE AppendPathDelim(dirPath)
      node == Resolved(path)
      modified == GetNodeModified(objects, path)
      lists == node # NullNode /\ (modified \/ NodeIsEmpty(Heap', node))
      call == Returned("GetChildren", path, FALSE, FALSE, {}, node, modified,
                       "range")
  IN /\ CallBegins
     /\ GetNode(objects, path, FALSE)
     /\ requests' = requests \o GetNodeRequests(objects, path, FALSE) \o
          ( IF lists THEN <<Request("ListDirectory", path, FALSE, FALSE)>>
            ELSE <<>> )
     /\ lastCall' =
          IF lists
          THEN [call EXCEPT !.pc = "list", !.flag = NodeIsEmpty(Heap', node),
                            !.listed = Listed(objects, path),
                            !.todo = ListDirectory(objects, path)]
          ELSE [call EXCEPT !.flag = node # NullNode /\ NodeIsEmpty(Heap', node),
                            !.range = IF node # NullNode
                                      THEN FindChildren(m_parentToChildrenMap', path)
                                      ELSE {}]
     /\ UNCHANGED <<nGrow, store, m_cache, handles, tasks, rd, up,
                    m_unfinishedMultipartUploadHandles, aborts, destroyed, wlog,
                    nWrite, lastWrite, heads, retryVars, dataVars, objects, moves,
                    lastRename, nRename>>

\* the synchronous ListDirectory of a call grows the tree with one more meta
SyncListGrow(p) ==
  /\ lastCall.pc = "list"
  /\ p \in lastCall.todo
  /\ lastCall' = [lastCall EXCEPT !.todo = @ \ {p}]
  /\ GrowNode(ObjectMeta(lastCall.listed, p))
  /\ UNCHANGED <<nGrow, store, m_cache, handles, tasks, rd, up,
                 m_unfinishedMultipartUploadHandles, aborts, destroyed, wlog,
                 nWrite, lastWrite, heads, retryVars, dataVars, renameVars, requests,
                 nCall>>

\* the future of the ListDirectory is ready: the call goes on to its return
SyncListReturn_NoWait ==
  /\ lastCall.pc = "list"
  /\ lastCall' = [lastCall EXCEPT !.pc = "done",
                    !.range = IF lastCall.op = "GetChildren"
                              THEN FindChildren(m_parentToChildrenMap, lastCall.path)
                              ELSE {}]
  /\ UNCHANGED <<treeVars, store, m_cache, handles, tasks, rd, up,
                 m_unfinishedMultipartUploadHandles, aborts, destroyed, wlog,
                 nWrite, lastWrite, heads, retryVars, dataVars, renameVars, requests,
                 nCall>>

SyncListReturn ==
  /\ lastCall.todo = {}
  /\ SyncListReturn_NoWait

\* Drive::DeleteDir
DeleteDir(dirPath, recursive, doCheck) ==
  LET path == IF dirPath = NullPath THEN NullPath ELSE AppendPathDelim(dirPath)
      node == Resolved(path)
      passed == /\ dirPath # NullPath
                /\ doCheck => /\ node # NullNode
                              /\ NodeEntryOk(Heap', node)
                              /\ IsDirectory(Heap', node)
                              /\ NodeIsEmpty(Heap', node)
  IN /\ CallBegins
     /\ IF doCheck /\ dirPath # NullPath
        THEN GetNode(objects, path, TRUE)
        ELSE UNCHANGED <<treeOnly, listings>>
     /\ requests' = requests \o
          ( IF doCheck THEN GetNodeRequests(objects, path, TRUE) ELSE <<>> ) \o
          ( IF passed THEN <<Request("DeleteDirectory", path, recursive, TRUE)>>
            ELSE <<>> )
     /\ lastCall' = Returned("DeleteDir", path, recursive, doCheck, {},
                             IF doCheck THEN node ELSE NullNode, FALSE, "void")
     /\ UNCHANGED <<nGrow, store, m_cache, handles, tasks, rd, up,
                    m_unfinishedMultipartUploadHandles, aborts, destroyed, wlog,
                    nWrite, lastWrite, heads, retryVars, dataVars, objects, moves,
                    lastRename, nRename>>

\* Drive::MakeFile: the file type it takes from the mode
MakeFileType(mode) ==
  IF BitAnd(mode, S_IF.S_IFREG) THEN "File"
  ELSE IF BitAnd(mode, S_IF.S_IFBLK) THEN "Block"
  ELSE IF BitAnd(mode, S_IF.S_IFCHR) THEN "Character"
  ELSE IF BitAnd(mode, S_IF.S_IFIFO) THEN "FIFO"
  ELSE IF BitAnd(mode, S_IF.S_IFSOCK) THEN "Socket"
  ELSE "none"

\* Drive::MakeFile; good: Client::MakeFile succeeds
MakeFile(filePath, mode, good, now) ==
  LET type == MakeFileType(mode)
  IN /\ CallBegins
     /\ lastCall' = Returned("MakeFile", filePath, good, FALSE, mode, NullNode,
                             FALSE, "void")
     /\ IF filePath = NullPath \/ type = "none"
        THEN UNCHANGED <<treeOnly, requests, objects>>
        ELSE IF type = "File"
        THEN /\ requests' = requests \o <<Request("MakeFile", filePath, FALSE, FALSE)>> \o
                  ( IF good THEN <<Request("Stat", filePath, FALSE, TRUE)>> ELSE <<>> )
             /\ objects' = IF good /\ filePath \notin DOMAIN objects
                           THEN (filePath :> now) @@ objects ELSE objects
             /\ UNCHANGED treeOnly
        ELSE /\ GrowNode(FileMetaData(filePath, 0, now, type))
             /\ UNCHANGED <<requests, objects>>
     /\ UNCHANGED <<nGrow, store, m_cache, handles, tasks, rd, up,
                    m_unfinishedMultipartUploadHandles, aborts, destroyed, wlog,
                    nWrite, lastWrite, heads, retryVars, dataVars, moves, listings,
                    lastRename, nRename>>

\* Drive::MakeDir; good: Client::MakeDirectory succeeds
MakeDir(dirPath, mode, good, now) ==
  LET path == IF dirPath = NullPath THEN NullPath ELSE AppendPathDelim(dirPath)
      asked == dirPath # NullPath /\ BitAnd(mode, S_IF.S_IFDIR)
  IN /\ CallBegins
     /\ lastCall' = Returned("MakeDir", dirPath, good, FALSE, mode, NullNode,
                             FALSE, "void")
     /\ requests' = requests \o
          ( IF asked THEN <<Request("MakeDirectory", path, FALSE, FALSE)>> ELSE <<>> ) \o
          ( IF asked /\ good THEN <<Request("Stat", path, FALSE, TRUE)>> ELSE <<>> )
     /\ objects' = IF asked /\ good /\ path \notin DOMAIN objects
                   THEN (path :> now) @@ objects ELSE objects
     /\ UNCHANGED <<treeVars, store, m_cache, handles, tasks, rd, up,
                    m_unfinishedMultipartUploadHandles, aborts, destroyed, wlog,
                    nWrite, lastWrite, heads, retryVars, dataVars, moves, listings,
                    lastRename, nRename>>

\* the requests Drive::Connect makes; good: HeadBucket succeeds
ConnectRequests_ListAnyway(good, buildupDirTreeAsync) ==
  << Request("HeadBucket", ROOT_PATH, FALSE, FALSE),
     Request("ListDirectory", ROOT_PATH, FALSE, buildupDirTreeAsync) >>

ConnectRequests(good, buildupDirTreeAsync) ==
  IF ~good THEN <<Request("HeadBucket", ROOT_PATH, FALSE, FALSE)>>
  ELSE << Request("HeadBucket", ROOT_PATH, FALSE, FALSE),
          Request("ListDirectory", ROOT_PATH, FALSE, buildupDirTreeAsync) >>

\* Drive::Connect, and Drive::GetRoot which calls it
Connect(op, good, buildupDirTreeAsync, now) ==
  LET call == [Returned(op, ROOT_PATH, buildupDirTreeAsync, FALSE, {}, m_root,
                        FALSE, "true") EXCEPT !.good = good]
  IN /\ CallBegins
     /\ requests' = requests \o ConnectRequests(good, buildupDirTreeAsync)
     /\ IF ~good
        THEN /\ lastCall' = [call EXCEPT !.ret = IF op = "GetRoot" THEN "QSException"
                                                 ELSE "false"]
             /\ UNCHANGED <<treeOnly, listings>>
        ELSE /\ IF m_root = NullNode
                THEN GrowNode(FileMetaData(ROOT_PATH, 0, now, "Directory"))
                ELSE UNCHANGED treeOnly
             /\ IF buildupDirTreeAsync
                THEN /\ listings' = listings \cup ListDirectory(objects, ROOT_PATH)
                     /\ lastCall' = [call EXCEPT !.node = m_root',
                                       !.ret = IF op = "GetRoot" THEN "root" ELSE "true"]
                ELSE /\ UNCHANGED listings
                     /\ lastCall' = [call EXCEPT !.pc = "list", !.node = m_root',
                                       !.ret = IF op = "GetRoot" THEN "root" ELSE "true",
                                       !.listed = Listed(objects, ROOT_PATH),
                                       !.todo = ListDirectory(objects, ROOT_PATH)]
     /\ UNCHANGED <<nGrow, store, m_cache, handles, tasks, rd, up,
                    m_unfinishedMultipartUploadHandles, aborts, destroyed, wlog,
                    nWrite, lastWrite, heads, retryVars, dataVars, objects, moves,
                    lastRename, nRename>>

\* executor: the task of a request submitted asynchronously runs (a HEAD
\* grows the tree with the metadata it gets, a DELETE removes the objects)
AsyncRun(k) ==
  LET r == requests[k]
  IN /\ ~r.ran
     /\ r.op \in {"Stat", "DeleteDirectory"}
     /\ requests' = [requests EXCEPT ![k].ran = TRUE]
     /\ IF r.op = "Stat"
        THEN /\ IF r.path \in DOMAIN objects
                THEN GrowNode(ObjectMeta(objects, r.path))
                ELSE UNCHANGED treeOnly
             /\ UNCHANGED objects
        ELSE /\ objects' =
                  [ p \in { q \in DOMAIN objects :
                              q # r.path /\ ~(r.recursive /\ HasPrefix(q, r.path)) }
                    |-> objects[p] ]
             /\ UNCHANGED treeOnly
     /\ UNCHANGED <<nGrow, store, m_cache, handles, tasks, rd, up,
                    m_unfinishedMultipartUploadHandles, aborts, destroyed, wlog,
                    nWrite, lastWrite, heads, retryVars, dataVars, moves, listings,
                    lastRename, nRename, lastCall, nCall>>

\* another client of the bucket puts or changes an object
RemotePut(p, now) ==
  /\ IF p \in DOMAIN objects THEN objects[p] < now ELSE TRUE
  /\ objects' = (p :> now) @@ objects
  /\ UNCHANGED <<treeVars, store, m_cache, handles, tasks, rd, up,
                 m_unfinishedMultipartUploadHandles, aborts, destroyed, wlog,
                 nWrite, lastWrite, heads, retryVars, dataVars, moves, listings,
                 lastRename, nRename, opsVars>>

DirPaths == {NullPath, DirA, <<"/", "a">>, FileC, DirE}

RemotePaths == {DirA, <<"/", "a", "/", "g">>}

\* the directories of a mounted Drive: looked up and listed
DirNext ==
  \/ \E path \in (DirPaths \ {<<"/", "a">>}) \cup RemotePaths,
        updateIfDirectory \in BOOLEAN :
        DriveGetNode(path, updateIfDirectory)
  \/ \E dirPath \in DirPaths : GetChildren(dirPath)
  \/ \E p \in lastCall.todo : SyncListGrow(p)
  \/ SyncListReturn
  \/ \E op \in {"Connect", "GetRoot"}, good \in BOOLEAN, async \in BOOLEAN :
        Connect(op, good, async, 2)
  \/ \E p \in listings : ListGrow(p)
  \/ \E p \in RemotePaths : RemotePut(p, 2)

DirSpec == RenameInit /\ [][DirNext]_vars

\* the directories of a mounted Drive deleted
DeleteNext ==
  \/ \E dirPath \in DirPaths \cup {ROOT_PATH, DirAB}, recursive \in BOOLEAN,
        doCheck \in BOOLEAN :
        DeleteDir(dirPath, recursive, doCheck)
  \/ \E k \in 1..Len(requests) : AsyncRun(k)
  \/ \E p \in listings : ListGrow(p)
  \/ \E p \in RemotePaths : RemotePut(p, 2)

DeleteSpec == RenameInit /\ [][DeleteNext]_vars

MakePaths == {NullPath, FileC, FileK, <<"/", "e">>, DirE}

Modes == { S_IF[t] : t \in DOMAIN S_IF }

\* the files and directories made on a mounted Drive
MakeNext ==
  \/ \E filePath \in MakePaths, mode \in Modes, good \in BOOLEAN :
        MakeFile(filePath, mode, good, 2)
  \/ \E dirPath \in MakePaths, mode \in Modes, good \in BOOLEAN :
        MakeDir(dirPath, mode, good, 2)
  \/ \E k \in 1..Len(requests) : AsyncRun(k)

MakeSpec == RenameInit /\ [][MakeNext]_vars

-----------------------------------------------------------------------------
(* FileMetaData::FileAccess                                                 *)

\* <unistd.h>: the bits of an access mode; F_OK is 0 and has none
AccessBits(flag) == IF flag = "F_OK" THEN {} ELSE {flag}

\* FileMetaData::FileAccess; a mode is the set of its bits
FileAccess(meta, uid, gid, amode) ==
  IF meta.m_filePath = NullPath THEN FALSE
  ELSE IF BitAnd(amode, AccessBits("F_OK")) THEN TRUE
  ELSE IF BitAnd(amode, AccessBits("R_OK"))
  THEN \/ (uid = meta.m_uid \/ uid = 0) /\ "S_IRUSR" \in meta.m_fileMode
       \/ (gid = meta.m_gid \/ gid = 0) /\ "S_IRGRP" \in meta.m_fileMode
       \/ "S_IROTH" \in meta.m_fileMode
  ELSE IF BitAnd(amode, AccessBits("W_OK"))
  THEN \/ (uid = meta.m_uid \/ uid = 0) /\ "S_IWUSR" \in meta.m_fileMode
       \/ (gid = meta.m_gid \/ gid = 0) /\ "S_IWGRP" \in meta.m_fileMode
       \/ "S_IWOTH" \in meta.m_fileMode
  ELSE IF BitAnd(amode, AccessBits("W_OK"))
  THEN \/ uid = 0 /\ meta.m_fileMode \cap {"S_IXUSR", "S_IXGRP", "S_IXOTH"} # {}
       \/ uid = meta.m_uid /\ "S_IXUSR" \in meta.m_fileMode
       \/ gid = meta.m_gid /\ "S_IXGRP" \in meta.m_fileMode
       \/ "S_IXOTH" \in meta.m_fileMode
  ELSE FALSE

\* a call of FileAccess on a FileMetaData of the given owner and mode
FileAccessCall(meta, uid, gid, amode) ==
  /\ access.pc = "idle"
  /\ access' = [pc |-> "done", m_filePath |-> meta.m_filePath,
                m_uid |-> meta.m_uid, m_gid |-> meta.m_gid,
                m_fileMode |-> meta.m_fileMode, uid |-> uid, gid |-> gid,
                amode |-> amode, ret |-> FileAccess(meta, uid, gid, amode)]
  /\ UNCHANGED <<treeVars, store, m_cache, handles, tasks, rd, up,
                 m_unfinishedMultipartUploadHandles, aborts, destroyed, wlog,
                 nWrite, lastWrite, heads, retryVars, renameVars, opsVars,
                 m_mapOfManager, loopVars>>

Ids == {0, 1, 2}

PermissionBits == {"S_IRUSR", "S_IWUSR", "S_IWGRP", "S_IXUSR", "S_IXGRP", "S_IXOTH"}

AccessModes == SUBSET {"R_OK", "W_OK", "X_OK"}

AccessNext ==
  \E filePath \in {NullPath, FileC}, m_uid \in {0, 1}, m_fileMode \in SUBSET PermissionBits,
     uid \in Ids, gid \in Ids, amode \in AccessModes :
     FileAccessCall([m_filePath |-> filePath, m_uid |-> m_uid, m_gid |-> 1,
                     m_fileMode |-> m_fileMode], uid, gid, amode)

AccessSpec == TreeInit /\ [][AccessNext]_vars

-----------------------------------------------------------------------------
(* Writes during the upload of a file                                       *)

\* the file after OpenFile and a WriteFile of "w" at offset 0, at time 1
WrittenMeta == [FileXMeta EXCEPT !.m_dirty = TRUE, !.m_fileOpen = TRUE]

FlushInit ==
  /\ metas = <<RootMeta, WrittenMeta>>
  /\ m_metaDatas = <<[path |-> FileX, meta |-> 2], [path |-> ROOT_PATH, meta |-> 1]>>
  /\ nodes = <<[NewNode(1) EXCEPT !.m_children = (FileX :> 2)],
               [NewNode(2) EXCEPT !.m_parent = 1]>>
  /\ m_root = 1
  /\ m_currentNode = 2
  /\ m_map = (ROOT_PATH :> 1) @@ (FileX :> 2)
  /\ m_parentToChildrenMap = {<<ROOT_PATH, 2>>}
  /\ nGrow = 0
  /\ lastGrow = NoGrow
  /\ orphans = {}
  /\ RenameIdle
  /\ OpsIdle
  /\ RetryIdle
  /\ dr = NoRange
  /\ wr = [t \in Writers |-> IdleWriter]
  /\ LockIdle
  /\ m_mapOfManager = ManagerMap(m_metaDatas)
  /\ access = NoAccess
  /\ store = StoreBytes
  /\ m_cache = [k \in CacheKeys |->
                  IF k = FileX THEN [data |-> (0 :> "w"), mtime |-> 1] ELSE NoFile]
  /\ handles = <<>>
  /\ tasks = <<>>
  /\ rd = [t \in Readers |-> IdleReader]
  /\ up = IdleUpload
  /\ m_unfinishedMultipartUploadHandles = <<>>
  /\ aborts = {}
  /\ destroyed = FALSE
  /\ wlog = (0 :> "w")
  /\ nWrite = 0
  /\ lastWrite = NoWrite
  /\ heads = [c \in HeadCallers |-> 0]

\* the upload is in flight: UploadFile was called, its callback has not ended
UploadInFlight == up.pc \notin {"idle", "done"}

FlushOffsets == {0, 1, 2}

FlushNext ==
  \/ UploadFile
  \/ UploadTaskDownload
  \/ UploadTaskDownloaded
  \/ UploadTaskUpload
  \/ UploadCallback
  \/ UploadCallbackFinished
  \/ \E i \in 1..Len(handles), ok \in BOOLEAN : HandleFinish(i, ok)
  \/ \E offset \in FlushOffsets, now \in WriteTimes, cacheOk \in BOOLEAN :
        UploadInFlight /\ WriteFile(offset, "v", now, cacheOk)

FlushSpec == FlushInit /\ [][FlushNext]_vars

-----------------------------------------------------------------------------
(* Drive::WriteFile called by several threads: its steps                    *)

writeIdle == <<nodes, m_metaDatas, m_map, m_parentToChildrenMap, m_root,
               m_currentNode, nGrow, lastGrow, orphans, lastWrite, heads,
               store, handles, tasks, rd, up,
               m_unfinishedMultipartUploadHandles, aborts, destroyed, wlog,
               nWrite, retryVars, renameVars, opsVars, m_mapOfManager, access, dr,
               lockVars>>

\* the checks and m_cache->Write
WriteFileCache(t, offset, size, byte, now, cacheOk) ==
  LET success == FileMeta.m_fileOpen /\ cacheOk
  IN /\ wr[t].pc = "idle"
     /\ m_cache' = IF success
                   THEN CacheWrite(m_cache, FileX, offset, size, <<byte>>, now)
                   ELSE m_cache
     /\ wr' = [wr EXCEPT ![t] = [pc |-> IF success THEN "written" ELSE "done",
                                 offset |-> offset, size |-> size,
                                 extend |-> FALSE, ret |-> 0]]
     /\ UNCHANGED <<metas, writeIdle>>

\* SetNeedUpload(true) and the test offset + size > node->GetFileSize()
WriteFileTest(t) ==
  /\ wr[t].pc = "written"
  /\ metas' = [metas EXCEPT ![FileEntry].m_dirty = TRUE]
  /\ wr' = [wr EXCEPT ![t].pc = "tested",
                       ![t].extend = wr[t].offset + wr[t].size > FileMeta.m_fileSize]
  /\ UNCHANGED <<m_cache, writeIdle>>

\* node->SetFileSize(offset + size) if the test held, and the return
WriteFileSetSize(t) ==
  /\ wr[t].pc = "tested"
  /\ metas' = IF wr[t].extend
              THEN [metas EXCEPT ![FileEntry].m_fileSize = wr[t].offset + wr[t].size]
              ELSE metas
  /\ wr' = [wr EXCEPT ![t].pc = "done", ![t].ret = wr[t].size]
  /\ UNCHANGED <<m_cache, writeIdle>>

WriteOffsetsBeyond == {1, 2, 3}

WritersNext ==
  \/ \E t \in Writers, offset \in WriteOffsetsBeyond, now \in WriteTimes,
        cacheOk \in BOOLEAN : WriteFileCache(t, offset, 1, "v", now, cacheOk)
  \/ \E t \in Writers : WriteFileTest(t)
  \/ \E t \in Writers : WriteFileSetSize(t)

WritersSpec == FlushInit /\ [][WritersNext]_vars

-----------------------------------------------------------------------------
(* Node::Remove and the destruction of the Nodes it releases               *)

\* Node::Remove called on a directory Node; the child and the Nodes below it
\* are destroyed when no owning reference is left
Remove(parent, child) ==
  LET h == Release(NodeRemove(Heap, parent, child), {m_root, m_currentNode})
  IN /\ nCall < MaxCalls
     /\ nCall' = nCall + 1
     /\ nodes[parent].alive /\ IsDirectory(Heap, parent)
     /\ nodes[child].alive
     /\ nodes' = h.nodes
     /\ metas' = h.metas
     /\ m_metaDatas' = h.mgr
     /\ lastCall' = [NoCall EXCEPT !.pc = "done", !.op = "Remove",
                                   !.path = GetFilePath(Heap, child),
                                   !.node = child]
     /\ UNCHANGED <<m_map, m_parentToChildrenMap, m_root, m_currentNode,
                    nGrow, lastGrow, orphans, store, m_cache, handles, tasks,
                    rd, up, m_unfinishedMultipartUploadHandles, aborts,
                    destroyed, wlog, nWrite, lastWrite, heads, retryVars,
                    renameVars, requests, dataVars>>

LinkInputs == { g \in GrowInputs : g.m_mtime = 1 /\ Len(g.m_filePath) <= 5 }

DtorNext ==
  \/ \E meta \in LinkInputs : Grow(meta) /\ UNCHANGED <<driveVars, renameVars>>
  \/ \E parent, child \in 1..Len(nodes) : Remove(parent, child)

DtorSpec == TreeInit /\ [][DtorNext]_vars

\* the directories /, /a/ and /a/b/
DirInputs == { g \in LinkInputs : g.m_fileType = "Directory" }

LinkNext ==
  \/ \E meta \in DirInputs : Grow(meta) /\ UNCHANGED <<driveVars, renameVars>>
  \/ \E parent, child \in 1..Len(nodes) : Remove(parent, child)
  \/ \E parent \in 1..Len(nodes), oldFilePath \in {DirA, DirAB} :
        RenameChild(parent, oldFilePath, DirE)

LinkSpec == TreeInit /\ [][LinkNext]_vars

-----------------------------------------------------------------------------
(* DirectoryTree: Grow under the lock of the tree, FindChildren beside it   *)

lockIdle == <<store, m_cache, handles, tasks, rd, up,
              m_unfinishedMultipartUploadHandles, aborts, destroyed, wlog,
              nWrite, lastWrite, heads, retryVars, renameVars, opsVars,
              m_mapOfManager, access, dr, wr>>

\* lock_guard<recursive_mutex> lock(m_mutex) at the head of Grow
GrowLock(meta) ==
  /\ nGrow < MaxGrow
  /\ gr.pc = "idle"
  /\ m_mutex = NoHolder
  /\ m_mutex' = "Grow"
  /\ gr' = [pc |-> "locked", meta |-> meta, node |-> NullNode]
  /\ nGrow' = nGrow + 1
  /\ UNCHANGED <<nodes, metas, m_metaDatas, m_map, m_parentToChildrenMap,
                 m_root, m_currentNode, lastGrow, orphans, fc, lockIdle>>

\* Grow up to "record parent to children map": the entry of a Node that is
\* found is updated; else the Node is made, put in the path map and hooked
\* up with its parent and its children
GrowHookUp ==
  LET meta     == gr.meta
      filePath == meta.m_filePath
      found    == Find(Heap, m_map, filePath)
      node     == IF found # NullNode THEN found ELSE Len(nodes) + 1
      h1       == IF found # NullNode
                  THEN [EntryCtor(Heap, meta) EXCEPT
                          !.nodes[node].m_entry = NewEntryId(Heap)]
                  ELSE [EntryCtor(Heap, meta) EXCEPT
                          !.nodes = Append(@, NewNode(NewEntryId(Heap)))]
      map1     == IF found # NullNode THEN m_map
                  ELSE MapEmplace(m_map, filePath, node)
      h2       == IF found # NullNode THEN h1
                  ELSE HookUpParent(h1, map1, node, MyDirName(meta))
      h3       == IF found = NullNode /\ meta.m_fileType = "Directory"
                  THEN HookUpChildren(h2, node,
                         IndexRange(h2, m_parentToChildrenMap, filePath))
                  ELSE h2
  IN /\ gr.pc = "locked"
     /\ nodes' = h3.nodes
     /\ metas' = h3.metas
     /\ m_metaDatas' = h3.mgr
     /\ m_map' = map1
     /\ gr' = [gr EXCEPT !.pc = IF found # NullNode THEN "updated" ELSE "hooked",
                         !.node = node]
     /\ orphans' = IF found = NullNode /\
                      Find(Heap, m_map, MyDirName(meta)) = NullNode
                   THEN orphans \cup {<<node, filePath>>} ELSE orphans
     /\ UNCHANGED <<m_parentToChildrenMap, m_root, m_currentNode, nGrow,
                    lastGrow, m_mutex, fc, lockIdle>>

\* the rest of Grow: the index takes the new Node, m_currentNode moves to
\* the Node, the lock is released
GrowUnlock ==
  LET h == Release(Heap, {m_root, gr.node})
  IN /\ gr.pc \in {"hooked", "updated"}
     /\ m_parentToChildrenMap' =
          IF gr.pc = "hooked"
          THEN m_parentToChildrenMap \cup {<<MyDirName(gr.meta), gr.node>>}
          ELSE m_parentToChildrenMap
     /\ m_currentNode' = gr.node
     /\ nodes' = h.nodes
     /\ metas' = h.metas
     /\ m_metaDatas' = h.mgr
     /\ lastGrow' = [meta |-> gr.meta, node |-> gr.node, created |-> gr.pc = "hooked"]
     /\ m_mutex' = NoHolder
     /\ gr' = IdleGrow
     /\ UNCHANGED <<m_map, m_root, nGrow, orphans, fc, lockIdle>>

\* DirectoryTree::FindChildren: equal_range on the index, no lock is taken
TreeFindChildren(dirName) ==
  /\ fc.pc = "idle"
  /\ fc' = [pc |-> "done", dirName |-> dirName,
            range |-> FindChildren(m_parentToChildrenMap, dirName),
            holder |-> m_mutex, grow |-> gr.pc]
  /\ UNCHANGED <<nodes, metas, m_metaDatas, m_map, m_parentToChildrenMap,
                 m_root, m_currentNode, nGrow, lastGrow, orphans, m_mutex, gr,
                 lockIdle>>

LockNext ==
  \/ \E meta \in LinkInputs : GrowLock(meta)
  \/ GrowHookUp
  \/ GrowUnlock
  \/ \E dirName \in {ROOT_PATH, DirA} : TreeFindChildren(dirName)

LockSpec == TreeInit /\ [][LockNext]_vars

-----------------------------------------------------------------------------
(* Drive::DownloadFileContentRanges: the loop over one range                *)

\* the value of an unsigned 64-bit number stored in an int64_t, on the width
\* of the model
ToInt64(x) == IF x >= SizeModulus \div 2 THEN x - SizeModulus ELSE x

DownloadSize_Whole(remainingSize, bufSize) == ToInt64(remainingSize)

\* downloadSize_ = remainingSize > bufSize ? bufSize : remainingSize
DownloadSize(remainingSize, bufSize) ==
  ToInt64(IF remainingSize > bufSize THEN bufSize ELSE remainingSize)

\* DownloadRange up to the loop: nothing is done for a range in the cache
DownloadRange(offset, size, bufSize) ==
  LET fileContentExist == HasFileData(m_cache, FileX, offset, size)
  IN /\ dr.pc = "idle"
     /\ dr' = [pc |-> IF fileContentExist THEN "done" ELSE "loop",
               offset |-> offset, size |-> size, bufSize |-> bufSize,
               fileContentExist |-> fileContentExist,
               remainingSize |-> size, downloadedSize |-> 0, reqs |-> <<>>]
     /\ UNCHANGED <<treeVars, store, m_cache, handles, tasks, rd, up,
                    m_unfinishedMultipartUploadHandles, aborts, destroyed, wlog,
                    nWrite, lastWrite, heads, retryVars, renameVars, opsVars,
                    m_mapOfManager, access, wr, lockVars>>

\* one test of the loop condition and, if it holds, one pass of the body
DownloadRangeLoop ==
  LET downloadSize_ == DownloadSize(dr.remainingSize, dr.bufSize)
  IN /\ dr.pc = "loop"
     /\ dr' = IF dr.remainingSize > 0 /\ downloadSize_ > 0
              THEN [dr EXCEPT
                      !.reqs = Append(@, [offset |-> dr.offset + dr.downloadedSize,
                                          size |-> downloadSize_]),
                      !.downloadedSize = WrapU64(@ + downloadSize_),
                      !.remainingSize = WrapU64(@ + SizeModulus - downloadSize_)]
              ELSE [dr EXCEPT !.pc = "done"]
     /\ UNCHANGED <<treeVars, store, m_cache, handles, tasks, rd, up,
                    m_unfinishedMultipartUploadHandles, aborts, destroyed, wlog,
                    nWrite, lastWrite, heads, retryVars, renameVars, opsVars,
                    m_mapOfManager, access, wr, lockVars>>

\* an earlier read has left a range of the file in the cache
CacheLoaded(offset, size) ==
  /\ dr.pc = "idle"
  /\ m_cache[FileX].data = <<>>
  /\ m_cache' = CacheWrite(m_cache, FileX, offset, size,
                           SubSeq(store, offset + 1, offset + size),
                           FileMeta.m_mtime)
  /\ UNCHANGED <<treeVars, store, handles, tasks, rd, up,
                 m_unfinishedMultipartUploadHandles, aborts, destroyed, wlog,
                 nWrite, lastWrite, heads, retryVars, renameVars, opsVars,
                 dataVars>>

RangeOffsets == {0, 1}

RangeSizes == 0..(SizeModulus - 1)

BufSizes == 0..(SizeModulus - 1)

RangeNext ==
  \/ \E offset \in RangeOffsets, size \in RangeSizes, bufSize \in BufSizes :
        DownloadRange(offset, size, bufSize)
  \/ DownloadRangeLoop
  \/ CacheLoaded(0, Len(StoreBytes))

\* the loop takes its next step while it has one
RangeSpec == DriveInit /\ [][RangeNext]_vars /\ WF_vars(DownloadRangeLoop)

-----------------------------------------------------------------------------
(* FileMetaDataManager: the list and its lookup map                         *)

MaxManagerCalls == 3

m_maxCount == 2

\* Add, on the lookup map: the path is bound to the slot of the new object
ManagerMapAdd(map, path, e) ==
  [p \in DOMAIN map \cup {path} |-> IF p = path THEN e ELSE map[p]]

ManagerMapErase(map, path) == [p \in DOMAIN map \ {path} |-> map[p]]

\* Rename, on the list: the slot of oldFilePath takes the new path and goes
\* to the front; a slot already at newFilePath is either kept, the rename
\* being refused, or replaced
ManagerRename(mgr, oldFilePath, newFilePath, replace) ==
  LET i == MgrIndex(mgr, oldFilePath)
  IN IF i = 0 \/ oldFilePath = newFilePath THEN mgr
     ELSE IF MgrIndex(mgr, newFilePath) # 0 /\ ~replace THEN mgr
     ELSE <<[path |-> newFilePath, meta |-> mgr[i].meta]>> \o
          ManagerErase(RemoveAt(mgr, i), newFilePath)

ManagerCalled(op, path) ==
  /\ nCall < MaxManagerCalls
  /\ nCall' = nCall + 1
  /\ lastCall' = [NoCall EXCEPT !.pc = "done", !.op = op, !.path = path]
  /\ UNCHANGED <<nodes, m_map, m_parentToChildrenMap, m_root, m_currentNode,
                 nGrow, lastGrow, orphans, store, m_cache, handles, tasks, rd,
                 up, m_unfinishedMultipartUploadHandles, aborts, destroyed,
                 wlog, nWrite, lastWrite, heads, retryVars, renameVars,
                 requests, access, loopVars>>

\* FreeNoLock: while the list is over its capacity the entry nearest to the
\* back whose path is neither pinned nor the one being added is evicted
RECURSIVE FreeNoLock(_, _, _)
FreeNoLock(mgr, maxCount, fileUnfreeable) ==
  LET free == { i \in 1..Len(mgr) : mgr[i].path \notin fileUnfreeable }
  IN IF Len(mgr) <= maxCount \/ free = {} THEN mgr
     ELSE FreeNoLock(RemoveAt(mgr, CHOOSE i \in free : \A j \in free : j <= i),
                     maxCount, fileUnfreeable)

RECURSIVE ManagerMapEraseAll(_, _)
ManagerMapEraseAll(map, paths) ==
  IF paths = {} THEN map
  ELSE LET p == CHOOSE q \in paths : TRUE
       IN ManagerMapEraseAll(ManagerMapErase(map, p), paths \ {p})

\* FileMetaDataManager::Add of a new FileMetaData object, the paths in pinned
\* being open or in transfer: a path not yet present is inserted and the list
\* is then brought back to its capacity
Add(meta, pinned) ==
  LET h == EntryCtor(Heap, meta)
      kept == IF MgrIndex(m_metaDatas, meta.m_filePath) # 0 THEN h.mgr
              ELSE FreeNoLock(h.mgr, m_maxCount, pinned \cup {meta.m_filePath})
      evicted == { h.mgr[i].path : i \in 1..Len(h.mgr) } \
                 { kept[i].path : i \in 1..Len(kept) }
  IN /\ ManagerCalled("Add", meta.m_filePath)
     /\ metas' = h.metas
     /\ m_metaDatas' = kept
     /\ m_mapOfManager' =
          ManagerMapEraseAll(ManagerMapAdd(m_mapOfManager, meta.m_filePath,
                                           NewEntryId(Heap)), evicted)

\* FileMetaDataManager::Erase
Erase(filePath) ==
  /\ ManagerCalled("Erase", filePath)
  /\ m_metaDatas' = ManagerErase(m_metaDatas, filePath)
  /\ m_mapOfManager' = ManagerMapErase(m_mapOfManager, filePath)
  /\ UNCHANGED metas

\* FileMetaDataManager::Rename
Rename(oldFilePath, newFilePath, replace) ==
  /\ ManagerCalled("Rename", newFilePath)
  /\ m_metaDatas' = ManagerRename(m_metaDatas, oldFilePath, newFilePath, replace)
  /\ m_mapOfManager' = ManagerMap(m_metaDatas')
  /\ metas' = IF m_metaDatas' = m_metaDatas THEN metas
              ELSE [metas EXCEPT ![m_metaDatas'[1].meta].m_filePath = newFilePath]

\* FileMetaDataManager::Clear
Clear ==
  /\ ManagerCalled("Clear", NullPath)
  /\ m_metaDatas' = <<>>
  /\ m_mapOfManager' = <<>>
  /\ UNCHANGED metas

ManagerPaths == {DirA, FileC, FileK}

ManagerNext ==
  \/ \E filePath \in ManagerPaths, mtime \in MTimes,
        pinned \in SUBSET (ManagerPaths \cup {ROOT_PATH}) :
        Add(FileMetaData(filePath, 0, mtime,
                         IF IsDirPath(filePath) THEN "Directory" ELSE "File"),
            pinned)
  \/ \E filePath \in ManagerPaths \cup {ROOT_PATH} : Erase(filePath)
  \/ \E oldFilePath \in ManagerPaths \cup {ROOT_PATH}, newFilePath \in ManagerPaths,
        replace \in BOOLEAN : Rename(oldFilePath, newFilePath, replace)
  \/ Clear

ManagerSpec == TreeInit /\ [][ManagerNext]_vars

-----------------------------------------------------------------------------
(* Claims on the directory tree *)

\* C6: a child grown while no Node exists at its dirname D is, after a
\* Directory Node is later grown at D (any number of Grow calls in between),
\* an entry of the new parent's children map, with its parent link set to
\* the Node at D.
C6_OrphanAdoptedByLaterParent ==
  (lastGrow.created /\ lastGrow.meta.m_fileType = "Directory") =>
    \A o \in orphans :
      (o[1] # lastGrow.node /\ MyDirNameOf(o[2]) = lastGrow.meta.m_filePath) =>
        /\ o[2] \in DOMAIN nodes[lastGrow.node].m_children
        /\ nodes[nodes[lastGrow.node].m_children[o[2]]].m_parent = lastGrow.node

\* C7: after every Grow(meta), Find(meta.path) gives a living Node that
\* carries meta.
C7_FindAfterGrow ==
  lastGrow.node # NullNode =>
    LET n == NodeAt(lastGrow.meta.m_filePath)
    IN /\ n # NullNode
       /\ MetaOf(n) # NoMeta
       /\ MetaOf(n).m_filePath = lastGrow.meta.m_filePath
       /\ MetaOf(n).m_mtime = lastGrow.meta.m_mtime

\* C8: for every path p of the path map, when a Node exists at dirname(p),
\* the Node at p has that Node as its parent and that Node's children map
\* maps p to the Node at p.
C8_ParentChildLinks ==
  \A p \in DOMAIN m_map :
    LET d == NodeAt(MyDirNameOf(p))
        n == NodeAt(p)
    IN d # NullNode =>
         /\ n # NullNode
         /\ nodes[n].m_parent = d
         /\ p \in DOMAIN nodes[d].m_children
         /\ nodes[d].m_children[p] = n

\* C9: the path map has an entry for p exactly when a living Node with path
\* p exists, and no entry refers to a Node that has been destroyed.
C9_PathMapIffLiveNode ==
  /\ \A p \in DOMAIN m_map :
       /\ nodes[m_map[p]].alive
       /\ GetFilePath(Heap, m_map[p]) = p
  /\ \A n \in LiveNodes :
       /\ GetFilePath(Heap, n) \in DOMAIN m_map
       /\ m_map[GetFilePath(Heap, n)] = n

\* C10: Grow(meta) applied twice in a row leaves the tree as applying it
\* once does: same indices, links, Node identities and metadata, link
\* counts included.
C10_GrowTwiceIsGrowOnce ==
  [][ (nGrow' = nGrow + 1 /\ lastGrow.node # NullNode
         /\ lastGrow'.meta = lastGrow.meta)
      => TreeView' = TreeView ]_vars

-----------------------------------------------------------------------------
(* Claims on rename *)

\* the living Node a snapshot of the tree holds at path p
ViewNodeAt(v, p) ==
  IF p \in DOMAIN v.map /\ v.nodes[v.map[p]].alive THEN v.map[p] ELSE NullNode

\* the tree after the step
NodeAfter(p) == Find(Heap', m_map', p)

MetaAfter(n) == IF NodeEntryOk(Heap', n) THEN metas'[nodes'[n].m_entry] ELSE NoMeta

\* the step is the return of a rename call
RenameReturns == lastRename' # lastRename /\ lastRename'.pc = "done"

\* C11: after renaming a directory old -> new (old has children, no Node at
\* new), Find(old) is empty, Find(new) gives a Directory Node, and every
\* former descendant is found under the new prefix with its metadata
\* unchanged apart from the path, the children with the Node at new as parent.
C11_DirRenameMovesSubtree ==
  [][ LET r == lastRename'
          v == r.pre
          n == ViewNodeAt(v, r.old)
      IN ( /\ RenameReturns
           /\ r.op \in {"RenameDir", "RenameChild"}
           /\ r.good
           /\ r.old # r.new
           /\ n # NullNode
           /\ v.nodes[n].meta.m_fileType = "Directory"
           /\ v.nodes[n].children # <<>>
           /\ r.op = "RenameChild" => r.parent = v.nodes[n].parent
           /\ ViewNodeAt(v, r.new) = NullNode )
         => /\ NodeAfter(r.old) = NullNode
            /\ NodeAfter(r.new) # NullNode
            /\ MetaAfter(NodeAfter(r.new)).m_fileType = "Directory"
            /\ \A c \in DOMAIN v.map :
                 (c # r.old /\ HasPrefix(c, r.old) /\ ViewNodeAt(v, c) # NullNode)
                 => LET m == NodeAfter(Reprefix(c, r.old, r.new))
                    IN /\ m # NullNode
                       /\ v.nodes[v.map[c]].parent = n
                            => nodes'[m].m_parent = NodeAfter(r.new)
                       /\ MetaAfter(m) =
                            [v.nodes[v.map[c]].meta EXCEPT
                               !.m_filePath = Reprefix(c, r.old, r.new)]
    ]_vars

\* C12: a rename old -> new made while a Node exists at new changes nothing
\* in the tree: the path map, the index, the links and children maps of the
\* Nodes and their metadata stay as they are.
C12_RenameOntoExistingNoChange ==
  [][ ( /\ lastRename' # lastRename
        /\ ViewNodeAt(lastRename'.pre, lastRename'.new) # NullNode )
      => TreeView' = TreeView ]_vars

\* C13: a call of Drive::RenameFile or Drive::RenameDir whose source path is
\* the root requests no move from the store and leaves the tree as it is.
C13_RenameRootRejected ==
  [][ ( /\ lastRename' # lastRename
        /\ lastRename'.op \in RenameOps
        /\ IsRootDirectory(lastRename'.old) )
      => (moves' = moves /\ objects' = objects /\ TreeView' = TreeView) ]_vars

-----------------------------------------------------------------------------
(* Observations of the Drive *)

\* the length of [offset, offset + size) clamped to the file
ClampedSize(offset, size, fileSize) ==
  IF offset >= fileSize THEN 0 ELSE Min(size, fileSize - offset)

\* the ReadFile call of t had to download: cache miss or modification
NeededDownload(t) == ~rd[t].exist \/ rd[t].modified

\* the GETs the ReadFile calls of t1 and t2 issued themselves for the range
SyncGets(t1, t2, offset, size) ==
  { i \in 1..Len(handles) :
      /\ handles[i].kind = "download"
      /\ handles[i].by \in {t1, t2}
      /\ handles[i].offset = offset
      /\ handles[i].size = size }

MultipartUploads ==
  { i \in 1..Len(handles) : handles[i].kind = "upload" /\ handles[i].multipart }

-----------------------------------------------------------------------------
(* Claims on the Drive *)

\* C1: after WriteFile(path, O, n, B) has returned n, a later
\* ReadFile(path, O, n) returns the n bytes B, provided the file was not
\* uploaded in between: the read never replaces the written bytes with
\* bytes downloaded from the store.
C1_ReadReturnsWrittenBytes ==
  \A t \in Readers :
    (rd[t].pc = "done" /\ ~rd[t].uploaded /\ rd[t].wend = rd[t].wsnap) =>
      \A O \in DOMAIN rd[t].wsnap :
        (rd[t].offset = O /\ rd[t].size = 1) => rd[t].ret = <<rd[t].wsnap[O]>>

\* C2: once ~Drive has run, every multipart upload handle started through
\* UploadFile whose session was neither completed nor aborted has been
\* aborted by it.
C2_DtorAbortsUnfinishedMultipart ==
  destroyed =>
    \A i \in MultipartUploads :
      handles[i].status = "Completed" \/ i \in aborts

\* C3: when UploadFile has run to completion (the upload completed and the
\* callback returned), the cache holds no data for the path: HasFileData is
\* false for every range.
C3_CacheEmptyAfterUpload ==
  [][ (up.pc = "upwait" /\ up'.pc = "done"
         /\ handles[up.handle].status = "Completed")
      => /\ m_cache'[FileX].data = <<>>
         /\ \A r \in ReadRanges : ~HasFileData(m_cache', FileX, r[1], r[2]) ]_vars

\* C4: a ReadFile that missed the cache or saw a modification has, before
\* its cache read, issued one download of exactly the clamped range, waited
\* for it to finish and written its bytes into the cache; the asynchronous
\* downloads are scheduled after that and cover only unloaded ranges.
C4_SyncDownloadBeforeCacheRead ==
  \A t \in Readers :
    (rd[t].pc = "done" /\ NeededDownload(t)) =>
      LET L == rd[t].log
          n == ClampedSize(rd[t].offset, rd[t].size, rd[t].fileSize)
      IN /\ Len(L) >= 3
         /\ L[1] = [ev |-> "get", offset |-> rd[t].offset, size |-> n]
         /\ L[2].ev = "write" /\ L[2].offset = rd[t].offset /\ L[2].size = n
         /\ L[2].status # "InProgress" /\ L[2].stored
         /\ \A k \in 3..(Len(L) - 1) :
              L[k].ev = "async" /\ L[k].unloaded
         /\ L[Len(L)].ev = "read"

\* C5: two ReadFile calls for the same range that run at the same time while
\* the range is not cached issue at most one GET for that range between
\* them, and return the same bytes.
C5_ConcurrentReadsOneGet ==
  \A t1, t2 \in Readers :
    (/\ t1 # t2
     /\ t2 \in rd[t1].inflight
     /\ rd[t1].offset = rd[t2].offset /\ rd[t1].size = rd[t2].size
     /\ ~rd[t1].exist /\ ~rd[t2].exist) =>
      /\ Cardinality(SyncGets(t1, t2, rd[t1].offset, rd[t1].downloadSize)) <= 1
      /\ (rd[t1].pc = "done" /\ rd[t2].pc = "done") => rd[t1].ret = rd[t2].ret

-----------------------------------------------------------------------------
(* Claims on WriteFile *)

\* the step is a call of WriteFile
WriteCalled == nWrite' = nWrite + 1

\* C14: WriteFile on a file that is not open returns 0 and leaves the cache,
\* the dirty flag and the file size as they are.
C14_WriteNotOpenNoEffect ==
  [][ (WriteCalled /\ ~FileMeta.m_fileOpen)
      => /\ lastWrite'.ret = 0
         /\ m_cache' = m_cache
         /\ FileMeta'.m_dirty = FileMeta.m_dirty
         /\ FileMeta'.m_fileSize = FileMeta.m_fileSize ]_vars

C14_Witness ==
  /\ nWrite > 0
  /\ ~FileMeta.m_fileOpen
  /\ lastWrite.size = 1
  /\ lastWrite.ret = 0

\* C15: a WriteFile that succeeds leaves the written bytes in the cache at
\* [offset, offset + size), the file dirty and its size the larger of the
\* size before and offset + size; a WriteFile on an open file whose cache
\* write fails leaves the dirty flag and the size as they are.
C15_WriteSuccessAndFailure ==
  [][ (WriteCalled /\ FileMeta.m_fileOpen)
      => LET w == lastWrite'
         IN IF w.ret # 0
            THEN /\ w.ret = w.size
                 /\ \A o \in Range(w.offset, w.size) :
                      /\ o \in DOMAIN m_cache'[FileX].data
                      /\ m_cache'[FileX].data[o] = w.byte
                 /\ FileMeta'.m_dirty
                 /\ FileMeta'.m_fileSize =
                      IF w.offset + w.size > FileMeta.m_fileSize
                      THEN w.offset + w.size ELSE FileMeta.m_fileSize
            ELSE /\ FileMeta'.m_dirty = FileMeta.m_dirty
                 /\ FileMeta'.m_fileSize = FileMeta.m_fileSize ]_vars

C15_Witness ==
  /\ nWrite > 0
  /\ FileMeta.m_fileOpen
  /\ lastWrite.ret = 1
  /\ lastWrite.offset = 2
  /\ FileMeta.m_fileSize = 3

-----------------------------------------------------------------------------
(* Claims on ReadFile *)

\* C16: a read that reaches beyond the file size requests, downloads and
\* returns at most max(0, fileSize - offset) bytes; a read at or beyond the
\* file size downloads nothing and returns nothing.
C16_ReadBeyondEofClamped ==
  \A t \in Readers :
    LET r   == rd[t]
        lim == IF r.fileSize > r.offset THEN r.fileSize - r.offset ELSE 0
    IN (r.pc # "idle" /\ r.offset + r.size > r.fileSize)
       => /\ r.downloadSize <= lim
          /\ \A k \in 1..Len(r.log) :
               r.log[k].ev = "get" => r.log[k].size <= lim
          /\ r.pc = "done" => Len(r.ret) <= lim

\* C17: a read of size 0 returns nothing and issues no request: no HEAD,
\* no GET of its own and no asynchronous download.
C17_ZeroSizeReadNoRequest ==
  \A t \in Readers :
    (rd[t].pc # "idle" /\ rd[t].size = 0)
    => /\ heads[t] = 0
       /\ \A k \in 1..Len(rd[t].log) : rd[t].log[k].ev \notin {"get", "async"}
       /\ rd[t].pc = "done" => rd[t].ret = <<>>

\* C18: a read of the first part of a file of which nothing is cached, the
\* download succeeding, has issued with its open exactly one HEAD and exactly
\* one GET of its own, for the range asked, has scheduled asynchronous
\* downloads that cover the rest of the file, and returns the bytes of the
\* object.
C18_ColdReadRequests ==
  \A t \in Readers :
    LET r == rd[t]
        gets == { k \in 1..Len(r.log) : r.log[k].ev = "get" }
    IN ( /\ r.pc = "done"
         /\ r.offset = 0 /\ r.size = 1
         /\ ~r.exist
         /\ \E k \in 1..Len(r.log) :
              r.log[k].ev = "write" /\ r.log[k].status = "Completed" )
       => /\ heads["OpenFile"] + heads[t] = 1
          /\ Cardinality(gets) = 1
          /\ \A k \in gets : r.log[k].offset = 0 /\ r.log[k].size = 1
          /\ \A o \in 1..(r.fileSize - 1) :
               \/ o \in DOMAIN m_cache[FileX].data
               \/ \E k \in 1..Len(r.log) :
                    /\ r.log[k].ev = "async"
                    /\ o \in Range(r.log[k].offset, r.log[k].size)
          /\ r.ret = SubSeq(StoreBytes, 1, 1)

-----------------------------------------------------------------------------
(* Claims on the retry strategy *)

\* C19: a call whose every request fails with a transient error makes, under
\* maxRetries = m, exactly m retries with the delays 1, 2, 4, ... times the
\* scale factor, then returns the last error and ends Failed.
C19_RetryDelaysDouble ==
  ( /\ clientCall.pc = "done"
    /\ clientCall.status # "Completed"
    /\ \A k \in 1..Len(clientCall.errors) :
         ErrorShouldRetry(clientCall.errors[k]) )
  => /\ clientCall.attemptedRetries = retryStrategy.m_maxRetryTimes
     /\ clientCall.delays = [k \in 1..retryStrategy.m_maxRetryTimes |->
                         (2 ^ (k - 1)) * retryStrategy.m_scaleFactor]
     /\ clientCall.returned = clientCall.errors[Len(clientCall.errors)]
     /\ clientCall.status = "Failed"

\* C20: a retry is made only after a transient error and while fewer than
\* maxRetries retries were made: a permanent error is never followed by a
\* retry, and no call makes more than maxRetries retries.
C20_RetryOnlyTransientBelowMax ==
  /\ clientCall.attemptedRetries <= retryStrategy.m_maxRetryTimes
  /\ Len(clientCall.delays) <= retryStrategy.m_maxRetryTimes
  /\ clientCall.pc = "sleep" =>
       /\ ErrorShouldRetry(clientCall.errors[Len(clientCall.errors)])
       /\ clientCall.attemptedRetries < retryStrategy.m_maxRetryTimes
  /\ \A k \in 1..Len(clientCall.errors) :
       ~ErrorShouldRetry(clientCall.errors[k]) =>
         /\ k = Len(clientCall.errors)
         /\ clientCall.pc = "done"
         /\ clientCall.status = "Failed"
         /\ clientCall.returned = clientCall.errors[k]

C20_Witness ==
  /\ clientCall.pc = "done"
  /\ retryStrategy.m_maxRetryTimes = MaxRetryTimes
  /\ clientCall.attemptedRetries = MaxRetryTimes
  /\ clientCall.status = "Failed"
  /\ ErrorShouldRetry(clientCall.returned)

-----------------------------------------------------------------------------
(* Claims on the TransferHandle *)

\* C21: a handle whose state is Completed, Failed, Canceled or Aborted keeps
\* that state under every later operation, RetryDownload, RetryUpload and
\* AbortMultipartUpload included.
C21_TerminalStatePermanent ==
  [][\A i \in 1..Len(handles) :
       Finished(handles[i]) => handles'[i].status = handles[i].status]_vars

-----------------------------------------------------------------------------
(* Claims on the Drive operations on directories and nodes *)

CallReturns(op) ==
  /\ lastCall'.op = op
  /\ lastCall'.pc = "done"
  /\ nCall' = nCall + 1 \/ lastCall.pc = "list"

\* the Node at a path is a Directory with children
NonEmptyDir(path) ==
  LET node == Find(Heap, m_map, path)
  IN /\ node # NullNode
     /\ IsDirectory(Heap, node)
     /\ ~NodeIsEmpty(Heap, node)

\* C22: DeleteDir on an existing directory that is not empty makes no
\* DeleteDirectory request when recursive is false and makes the request
\* DeleteDirectory(path, recursive = true) when recursive is true; the request
\* is always submitted asynchronously.
C22_DeleteDirRecursive ==
  [][ ( CallReturns("DeleteDir") /\ NonEmptyDir(lastCall'.path) ) =>
        LET new == Sent(requests', Len(requests), "DeleteDirectory")
        IN /\ ~lastCall'.flag => new = {}
           /\ lastCall'.flag =>
                \E k \in new : /\ requests'[k].path = lastCall'.path
                               /\ requests'[k].recursive
           /\ \A k \in new : requests'[k].async ]_vars

\* the file type MakeFile is to give a Node made with a device, FIFO or
\* socket mode
DeviceType(mode) ==
  IF mode = S_IF.S_IFBLK THEN "Block"
  ELSE IF mode = S_IF.S_IFCHR THEN "Character"
  ELSE IF mode = S_IF.S_IFIFO THEN "FIFO"
  ELSE "Socket"

\* C23: MakeFile with a regular file mode asks the store to create the file,
\* then submits a HEAD, and grows nothing; with a block, character, FIFO or
\* socket mode it makes no request and grows one Node of the file type Block,
\* Character, FIFO or Socket; with a directory or symlink mode it makes
\* nothing.
C23_MakeFileByMode ==
  [][ ( /\ CallReturns("MakeFile")
        /\ lastCall'.path # NullPath
        /\ Find(Heap, m_map, lastCall'.path) = NullNode ) =>
        LET mode == lastCall'.mode
            path == lastCall'.path
            new  == SubSeq(requests', Len(requests) + 1, Len(requests'))
        IN /\ mode = S_IF.S_IFREG =>
                /\ TreeView' = TreeView
                /\ Len(new) >= 1
                /\ new[1].op = "MakeFile" /\ new[1].path = path /\ ~new[1].async
                /\ lastCall'.flag =>
                     /\ Len(new) = 2
                     /\ new[2].op = "Stat" /\ new[2].path = path /\ new[2].async
           /\ mode \in {S_IF.S_IFBLK, S_IF.S_IFCHR, S_IF.S_IFIFO, S_IF.S_IFSOCK} =>
                /\ new = <<>>
                /\ Len(nodes') = Len(nodes) + 1
                /\ NodeAfter(path) # NullNode
                /\ MetaAfter(NodeAfter(path)).m_fileType = DeviceType(mode)
           /\ mode \in {S_IF.S_IFDIR, S_IF.S_IFLNK} =>
                /\ new = <<>>
                /\ TreeView' = TreeView ]_vars

\* the Node at a path is a file
IsFileNode(path) ==
  LET node == Find(Heap, m_map, path)
  IN node # NullNode /\ NodeEntryOk(Heap, node) /\ ~IsDirectory(Heap, node)

\* C24: MakeDir on a path that exists as a file fails with EEXIST: no
\* MakeDirectory request is made, the Node of the file is unchanged and the
\* caller receives EEXIST.
C24_MakeDirOnFileEexist ==
  [][ ( /\ CallReturns("MakeDir")
        /\ lastCall'.path # NullPath
        /\ lastCall'.mode = S_IF.S_IFDIR
        /\ IsFileNode(lastCall'.path) ) =>
        /\ Sent(requests', Len(requests), "MakeDirectory") = {}
        /\ TreeView' = TreeView
        /\ lastCall'.ret = "EEXIST" ]_vars

\* the step is the return of Connect, or of GetRoot
ConnectReturns == CallReturns("Connect") \/ CallReturns("GetRoot")

\* C25: when HeadBucket fails, Connect returns false without growing the
\* tree and without any LIST, and GetRoot raises the exception; when it
\* succeeds, the root Node is in the tree when Connect returns and a LIST of
\* "/" has been made.
C25_ConnectHeadsBucketFirst ==
  [][ ConnectReturns =>
        LET lists == { k \in Sent(requests', lastCall'.sent, "ListDirectory") :
                         requests'[k].path = ROOT_PATH }
            heads_ == Sent(requests', lastCall'.sent, "HeadBucket")
        IN /\ heads_ # {}
           /\ ~lastCall'.good =>
                /\ lastCall'.ret = IF lastCall'.op = "GetRoot" THEN "QSException"
                                   ELSE "false"
                /\ TreeView' = TreeView
                /\ Sent(requests', lastCall'.sent, "ListDirectory") = {}
           /\ lastCall'.good =>
                /\ lastCall'.ret = IF lastCall'.op = "GetRoot" THEN "root" ELSE "true"
                /\ m_root' # NullNode
                /\ NodeAfter(ROOT_PATH) = m_root'
                /\ lists # {}
                /\ \A k \in lists : \E j \in heads_ : j < k ]_vars

C25_Witness ==
  /\ lastCall.op = "Connect"
  /\ lastCall.pc = "done"
  /\ lastCall.good
  /\ ~lastCall.flag
  /\ lastCall.ret = "true"
  /\ \E k \in 1..Len(requests) : requests[k].op = "ListDirectory"

-----------------------------------------------------------------------------
(* Claims on FileMetaData and its manager *)

\* C28: FileAccess(uid, gid, X_OK) on a path that is not empty is true
\* exactly when an execute bit applies to the caller: uid is the owner and
\* S_IXUSR is set, or gid is the group and S_IXGRP is set, or S_IXOTH is set,
\* or uid is 0 and any execute bit is set.
C28_FileAccessExecute ==
  ( access.pc = "done" /\ access.amode = {"X_OK"} /\ access.m_filePath # NullPath )
  => ( access.ret <=>
         \/ access.uid = access.m_uid /\ "S_IXUSR" \in access.m_fileMode
         \/ access.gid = access.m_gid /\ "S_IXGRP" \in access.m_fileMode
         \/ "S_IXOTH" \in access.m_fileMode
         \/ access.uid = 0 /\
              access.m_fileMode \cap {"S_IXUSR", "S_IXGRP", "S_IXOTH"} # {} )

\* C29: the path stored in every FileMetaData constructed, and so in that of
\* every Node grown by a Drive operation, ends with '/' exactly when the
\* file type is Directory.
C29_TrailingSlashIffDirectory ==
  \A e \in 1..Len(metas) :
    metas[e].m_filePath # NullPath =>
      ( IsDirPath(metas[e].m_filePath) <=> metas[e].m_fileType = "Directory" )

\* the paths of the list of the manager
ManagerPathsOf(mgr) == { mgr[i].path : i \in 1..Len(mgr) }

-----------------------------------------------------------------------------
(* Claims on the upload of a file and on the downloads of its ranges *)

\* the step of the upload task that calls TransferManager::UploadFile
UploadStarts == up.pc = "task" /\ up'.pc = "callback"

\* every byte of [0, fileSize) is in the cache of the file
CacheResident(fileSize) ==
  \A i \in 0..(fileSize - 1) : i \in DOMAIN m_cache[FileX].data

\* the downloads made by the upload task
UploadDownloads ==
  { i \in 1..Len(handles) : handles[i].kind = "download" /\ handles[i].by = "upload" }

\* C31: the upload of Drive::UploadFile starts only when every range of
\* [0, fileSize) that was not in the cache has been downloaded and written to
\* the cache: each download of the task has completed and every byte of the
\* file is in the cache.
C31_UploadAfterRangesLoaded ==
  [][ UploadStarts =>
        /\ CacheResident(up.fileSize)
        /\ \A i \in UploadDownloads : handles[i].status = "Completed" ]_vars

\* the upload of the file has finished successfully
UploadCompleted ==
  up.handle # NullHandle /\ handles[up.handle].status = "Completed"

\* C35: the dirty flag of the Node is cleared and its cache entry erased only
\* after its upload has finished successfully; after an upload that ended
\* Failed, Canceled or Aborted the Node is dirty still.
C35_DirtyUntilUploadCompleted ==
  [][ /\ ( FileMeta.m_dirty /\ ~FileMeta'.m_dirty ) => UploadCompleted
      /\ ( up.pc = "upwait" /\ up'.pc = "done" ) => UploadCompleted ]_vars

\* the download of handle i has finished successfully
DownloadCompleted(i) == handles[i].status = "Completed"

\* C36: the buffer of a download is written into the cache only when its
\* handle has finished successfully, in ReadFile and in both forms of
\* DownloadFileContentRanges.
C36_OnlyCompletedDownloadsCached ==
  [][ m_cache' # m_cache =>
        /\ \A t \in Readers :
              ( rd[t].pc = "wait" /\ rd'[t].pc = "schedule" )
                => DownloadCompleted(rd[t].handle)
        /\ ( up.pc = "dlwait" /\ up'.pc = "task" ) => DownloadCompleted(up.dl)
        /\ \A i \in 1..Len(tasks) :
              ( tasks[i].handle # NullHandle /\ tasks' = RemoveAt(tasks, i) )
                => DownloadCompleted(tasks[i].handle) ]_vars

\* C37: a WriteFile that has reported success while an upload of the file
\* was in flight is not lost: when the callback of the upload has ended, the
\* written byte is in the uploaded object, or the Node is dirty and the byte
\* is in the cache.
C37_WriteDuringUploadNotLost ==
  ( up.pc = "done" /\ lastWrite.ret = lastWrite.size /\ lastWrite.size > 0 ) =>
     \/ /\ UploadCompleted
        /\ lastWrite.offset < Len(store)
        /\ store[lastWrite.offset + 1] = lastWrite.byte
     \/ /\ FileMeta.m_dirty
        /\ lastWrite.offset \in DOMAIN m_cache[FileX].data
        /\ m_cache[FileX].data[lastWrite.offset] = lastWrite.byte

\* C38: when concurrent WriteFile calls on the open file have returned with
\* success, the file size of the Node is at least offset + size of each.
C38_NoSizeExtensionLost ==
  \A t \in Writers :
     ( ( \A u \in Writers : wr[u].pc = "done" ) /\ wr[t].ret > 0 ) =>
        FileMeta.m_fileSize >= wr[t].offset + wr[t].size

\* C39: FindChildren runs under the lock of the tree like every operation on
\* the path map and the index, and so never sees the index while a Grow is
\* between its changes of the path map and of the index.
C39_FindChildrenUnderLock ==
  fc.pc = "done" => ( fc.holder = NoHolder /\ fc.grow = "idle" )

\* the requests of the range made so far are contiguous from offset
RECURSIVE Contiguous(_, _)
Contiguous(reqs, offset) ==
  \/ reqs = <<>>
  \/ /\ Head(reqs).offset = offset
     /\ Contiguous(Tail(reqs), offset + Head(reqs).size)

RECURSIVE TotalSize(_)
TotalSize(reqs) == IF reqs = <<>> THEN 0 ELSE Head(reqs).size + TotalSize(Tail(reqs))

\* the chunks requested are well formed: none empty, none above the buffer
\* size, in increasing order without gaps from the offset of the range
ChunksWellFormed ==
  /\ \A k \in 1..Len(dr.reqs) : dr.reqs[k].size > 0 /\ dr.reqs[k].size <= dr.bufSize
  /\ Contiguous(dr.reqs, dr.offset)
  /\ TotalSize(dr.reqs) <= dr.size

\* the loop has ended for a range that was not in the cache
RangeDone == dr.pc = "done" /\ ~dr.fileContentExist

\* C32 as stated: for every range not in the cache and every buffer size the
\* chunks requested are well formed and cover exactly [offset, offset + size).
C32_ChunksCoverRange ==
  /\ ChunksWellFormed
  /\ RangeDone => TotalSize(dr.reqs) = dr.size

\* C32, amended: the loop ends for every size and every buffer size, and the
\* chunks are well formed; they cover exactly [offset, offset + size) when
\* the buffer size is not 0 and the first chunk size fits a signed 64-bit
\* number, and otherwise no request is made.
C32_ChunksCoverRangeBufferNotZero ==
  /\ [](/\ ChunksWellFormed
        /\ RangeDone =>
             IF dr.bufSize > 0 /\ Min(dr.size, dr.bufSize) < SizeModulus \div 2
             THEN TotalSize(dr.reqs) = dr.size
             ELSE dr.reqs = <<>>)
  /\ (dr.pc = "loop" ~> dr.pc = "done")

\* a range of three bytes has been downloaded in two chunks
C32_Witness ==
  /\ RangeDone
  /\ dr.size = 3 /\ dr.bufSize = 2
  /\ Len(dr.reqs) = 2

-----------------------------------------------------------------------------
(* Claims on Grow and on the links of the Nodes *)

\* C33: Grow of a metadata whose dirname is empty is rejected without effect:
\* the path map, the parent-to-children index and the Nodes of the tree are
\* as before the call.
C33_GrowEmptyDirNameRejected ==
  [][ ( nGrow' = nGrow + 1 /\ MyDirName(lastGrow'.meta) = NullPath
        /\ ~IsRootDirectory(lastGrow'.meta.m_filePath) )
      => /\ m_map' = m_map
         /\ m_parentToChildrenMap' = m_parentToChildrenMap
         /\ TreeView' = TreeView ]_vars

\* the Nodes destroyed by the step
Destroyed == { n \in 1..Len(nodes) : nodes[n].alive /\ ~nodes'[n].alive }

\* the link count at or under which the destructor erases the metadata
NoLinkLeft(meta) ==
  meta.m_numLink = 0 \/ (meta.m_numLink <= 1 /\ meta.m_fileType = "Directory")

\* C34: the destruction of a Node takes one link from its metadata, and the
\* metadata leaves the manager exactly when the count left is 0, or at most
\* 1 for a directory.
C34_NodeDtorLinkCount ==
  [][ ( lastCall'.op = "Remove" /\ nCall' = nCall + 1 ) =>
        \A n \in Destroyed :
           NodeEntryOk(Heap, n) =>
             LET e == nodes[n].m_entry
             IN /\ metas'[e].m_numLink = metas[e].m_numLink - 1
                /\ MetaAlive(Heap', e) <=> ~NoLinkLeft(metas'[e]) ]_vars

\* a Remove has destroyed a directory whose metadata stays in the manager and
\* a Node whose metadata has left it
C34_Witness ==
  /\ lastCall.op = "Remove"
  /\ \E n, k \in 1..Len(nodes) :
        /\ ~nodes[n].alive /\ ~nodes[k].alive
        /\ MetaAlive(Heap, nodes[n].m_entry)
        /\ metas[nodes[n].m_entry].m_numLink = 2
        /\ ~MetaAlive(Heap, nodes[k].m_entry)
        /\ NoLinkLeft(metas[nodes[k].m_entry])

\* the directory children of a Node
DirChildren(n) ==
  { k \in DOMAIN nodes[n].m_children : IsDirectory(Heap, nodes[n].m_children[k]) }

\* C40: the link count of a directory Node is 2 plus the number of the
\* directory Nodes in its children map.
C40_DirLinkCount ==
  \A n \in LiveNodes :
     IsDirectory(Heap, n) =>
       metas[nodes[n].m_entry].m_numLink = 2 + Cardinality(DirChildren(n))

=============================================================================
